---- MODULE Spec2Model ----
(***************************************************************************)
(* Model of backend/python/gif_splitter.py: the animated-image tool that   *)
(* serves one request at a time (get_frame_count, export_frames, reverse,  *)
(* change_speed, compress, resize, build_gif, convert_animation) against   *)
(* a file system.  The raster codec (Pillow) is the environment: a decode  *)
(* reports what the container declares, an encode either stores what it   *)
(* is handed or fails after the destination has been opened for writing.   *)
(***************************************************************************)
EXTENDS Integers, Sequences, FiniteSets, TLC

VARIABLES
    origin,    \* fs as it was when the run started
    fs,        \* the files at the request paths: [Paths -> file]
    dirs,      \* the directories the tool has created
    exported,  \* the frame files on disk: a set of [path, st]
    req,       \* the request taken last
    pending,   \* TRUE while that request has not been answered
    resp,      \* the response to it
    pre,       \* fs as it was when that request was taken
    wr,        \* what that request handed to a writer
    encoder,   \* the fate of an encode in this run: a member of Faults
    served,    \* the number of requests taken
    answered,  \* the number of responses given
    walk,      \* a read of a file's timing chunks: the buffer and the parser's position
    calc       \* a call of a numeric helper: its arguments and its result

vars == <<origin, fs, dirs, exported, req, pending, resp, pre, wr, encoder, served, answered,
          walk, calc>>

(***************************************************************************)
(* JSON / decoder values.  k is the Python type of the value, n its        *)
(* payload: the integer itself for "int", the value in hundredths for      *)
(* "float"; "str" is a string that float() rejects, "nan" is float('nan'). *)
(***************************************************************************)
NoneV == [k |-> "none", n |-> 0]
IntV(i) == [k |-> "int", n |-> i]
FloatV(h) == [k |-> "float", n |-> h]
StrV == [k |-> "str", n |-> 0]
NanV == [k |-> "nan", n |-> 0]

\* isinstance(v, int)
IsInt(v) == v.k = "int"

\* float(v) succeeds (no TypeError / ValueError)
FloatOk(v) == v.k \in {"int", "float", "nan"}

\* float(v) in hundredths, for a finite number
Hundredths(v) == IF v.k = "int" THEN v.n * 100 ELSE v.n

\* Python truthiness of a JSON value: None, 0, 0.0 are false
Truthy(v) == CASE v.k = "none" -> FALSE
               [] v.k \in {"int", "float"} -> v.n # 0
               [] OTHER -> TRUE

Max2(a, b) == IF a >= b THEN a ELSE b
Min2(a, b) == IF a <= b THEN a ELSE b

\* int(round(p / q)) for p >= 0, q > 0: Python 3 rounds halves to even
RoundDiv(p, q) ==
    LET f == p \div q
        r == p % q
    IN  IF 2 * r < q THEN f
        ELSE IF 2 * r > q THEN f + 1
        ELSE IF f % 2 = 0 THEN f ELSE f + 1

\* int(round(x)) of a signed number given as p / q, q > 0
RoundSigned(p, q) == IF p >= 0 THEN RoundDiv(p, q) ELSE -RoundDiv(-p, q)

\* int(x) of a signed number given as p / q, q > 0: truncation toward zero
TruncDiv(p, q) == IF p >= 0 THEN p \div q ELSE -((-p) \div q)

\* a sequence left in its order (what reversed() would be if it did nothing)
KeepOrder(s) == s

\* list.reverse()
Reverse(s) == [i \in 1..Len(s) |-> s[Len(s) + 1 - i]]

(***************************************************************************)
(* Program constants.  Speed factors are kept in hundredths.               *)
(***************************************************************************)
DEFAULT_FPS == 10
MIN_SPEED_FACTOR == 10
MAX_SPEED_FACTOR == 200
MIN_QUALITY == 1
MAX_QUALITY == 100
MAX_FRAME_PIXEL_BUDGET == 120000000
DefaultDurationMs == 100
DefaultQuality == 90

(***************************************************************************)
(* Bounds of the model.                                                    *)
(***************************************************************************)
MaxFrames == 2
MaxRequests == 1
MaxReverses == 2

(***************************************************************************)
(* Files.  A file is absent, partial (opened for writing and left          *)
(* truncated by a failed encode) or ok.  An ok file carries what a decode  *)
(* of it reports: the container format, per frame the pixel content px,    *)
(* palette size pal (0: not quantized by this tool) and the frame-local    *)
(* duration and disposal entries (NoneV when the frame declares none), the *)
(* container-level duration and loop entries, the canvas size, and raw:    *)
(* the durations held by its ANMF / fcTL chunks (<<>> when it has none).   *)
(***************************************************************************)
Absent == [st |-> "absent", fmt |-> "", frames |-> <<>>, defdur |-> NoneV,
           loop |-> NoneV, w |-> 0, h |-> 0, raw |-> <<>>]
Partial == [st |-> "partial", fmt |-> "", frames |-> <<>>, defdur |-> NoneV,
            loop |-> NoneV, w |-> 0, h |-> 0, raw |-> <<>>]

\* alpha holds the alpha of the frame's two regions of pixels as a decode to
\* RGBA reports it: the body of the picture, and a detail of single pixels
\* inside it; index holds their palette indices once this tool has
\* quantized the frame (<<>> before)
MkFrame(px, pal, dur, disp, alpha, index) ==
    [px |-> px, pal |-> pal, dur |-> dur, disp |-> disp, alpha |-> alpha, index |-> index]

MkFile(fmt, frames, defdur, loop, w, h, raw) ==
    [st |-> "ok", fmt |-> fmt, frames |-> frames, defdur |-> defdur,
     loop |-> loop, w |-> w, h |-> h, raw |-> raw]

PathA == "a.gif"
PathB == "out/b.gif"
Paths == {PathA, PathB}

\* os.path.dirname
Dirname(p) == IF p = PathB THEN "out" ELSE ""

\* Image.open(path): the exception it raises, or "ok"
OpenImage(f) ==
    CASE f.st = "absent" -> "FileNotFoundError"
      [] f.st = "partial" -> "UnidentifiedImageError"
      [] f.fmt = "TXT" -> "UnidentifiedImageError"
      [] OTHER -> "ok"

(***************************************************************************)
(* Responses.  One record shape for all; a field an operation does not     *)
(* report holds -1, "" or <<>>.  raised is TRUE when no response was       *)
(* produced because an exception left the entry point.                     *)
(***************************************************************************)
BlankResponse ==
    [raised |-> FALSE, success |-> FALSE, error |-> "", error_code |-> "",
     frame_count |-> -1, speed_factor |-> -1, quality |-> -1, fps |-> -1,
     width |-> -1, height |-> -1, original_width |-> -1, original_height |-> -1,
     export_count |-> -1, frame_paths |-> <<>>, output_format |-> "",
     source_format |-> ""]

NoResponse == [BlankResponse EXCEPT !.raised = TRUE]

_error_response(code, message) ==
    [BlankResponse EXCEPT !.success = FALSE, !.error = message, !.error_code = code]

Ok == [BlankResponse EXCEPT !.success = TRUE]

(***************************************************************************)
(* What an operation hands to a writer.                                    *)
(***************************************************************************)
NoWrite == [called |-> FALSE, fmt |-> "", frames |-> <<>>, durations |-> <<>>,
            disposals |-> <<>>, hasDisposal |-> FALSE, loop |-> NoneV,
            transparency |-> -1, optimize |-> FALSE, w |-> 0, h |-> 0]

\* no read of timing chunks is under way
NoWalk == [pc |-> "idle", fmt |-> "", shape |-> <<>>, data |-> <<>>, n |-> 0, offset |-> 0,
           durations |-> <<>>, reads |-> {}, raised |-> FALSE, parsed |-> <<>>,
           final |-> <<>>]

\* no helper has been called
NoCalc == [fn |-> "", args |-> <<>>, out |-> <<>>, done |-> FALSE]

\* the outcome of an operation: its response and its effects
Outcome(r, f, d, w) == [resp |-> r, fs |-> f, dirs |-> d, wr |-> w]

\* an exception that leaves the operation (not caught inside it)
Raised(f, d, w) == [resp |-> NoResponse, fs |-> f, dirs |-> d, wr |-> w]

\* _ensure_parent_dir
_ensure_parent_dir(d, path) ==
    IF Dirname(path) # "" THEN d \cup {Dirname(path)} ELSE d

(***************************************************************************)
(* Container Reader.                                                       *)
(***************************************************************************)
\* frame.info.get("duration", default_duration), then the validity test
ResolveDuration(dur, default_duration) ==
    LET duration == IF dur.k = "none" THEN default_duration ELSE dur
    IN  IF ~IsInt(duration) \/ duration.n <= 0 THEN default_duration ELSE duration

\* frame.info.get("disposal", getattr(frame, "disposal_method", 0))
ResolveDisposal(disp) ==
    LET disposal == IF disp.k = "none" THEN IntV(0) ELSE disp
    IN  IF ~IsInt(disposal) \/ disposal.n < 0 THEN IntV(0) ELSE disposal

\* info.get(key, fallback)
InfoGet(v, fallback) == IF v.k = "none" THEN fallback ELSE v

Pixels(f) ==
    [i \in 1..Len(f.frames) |->
        [px |-> f.frames[i].px, pal |-> f.frames[i].pal,
         alpha |-> f.frames[i].alpha, index |-> f.frames[i].index]]

\* a reader that stops after the first frame
ExtractFirstFrame(f) ==
    LET default_duration == InfoGet(f.defdur, IntV(DefaultDurationMs))
    IN  [frames |-> SubSeq(Pixels(f), 1, 1),
         durations |-> <<ResolveDuration(f.frames[1].dur, default_duration)>>,
         loop |-> InfoGet(f.loop, IntV(0))]

\* _extract_gif_frames (the caller has checked gif.format)
_extract_gif_frames(f) ==
    LET default_duration == InfoGet(f.defdur, IntV(DefaultDurationMs))
    IN  [frames |-> Pixels(f),
         durations |-> [i \in 1..Len(f.frames) |->
                           ResolveDuration(f.frames[i].dur, default_duration)],
         loop |-> InfoGet(f.loop, IntV(0))]

\* frame.convert("RGBA").copy(): the pixels without their palette
PixelsRGBA(f) ==
    [i \in 1..Len(f.frames) |->
        [px |-> f.frames[i].px, pal |-> 0, alpha |-> f.frames[i].alpha, index |-> <<>>]]

\* a reader that lists a disposal only for the frames that declare one
ExtractDeclaredDisposals(f) ==
    LET default_duration == InfoGet(f.defdur, IntV(DefaultDurationMs))
        declared == SelectSeq(f.frames, LAMBDA frame : frame.disp.k # "none")
    IN  [frames |-> PixelsRGBA(f),
         durations |-> [i \in 1..Len(f.frames) |->
                           ResolveDuration(f.frames[i].dur, default_duration)],
         loop |-> InfoGet(f.loop, IntV(0)),
         disposals |-> [i \in 1..Len(declared) |-> ResolveDisposal(declared[i].disp)]]

\* _extract_gif_frames_with_disposal: frames are converted to RGBA
_extract_gif_frames_with_disposal(f) ==
    LET default_duration == InfoGet(f.defdur, IntV(DefaultDurationMs))
    IN  [frames |-> PixelsRGBA(f),
         durations |-> [i \in 1..Len(f.frames) |->
                           ResolveDuration(f.frames[i].dur, default_duration)],
         loop |-> InfoGet(f.loop, IntV(0)),
         disposals |-> [i \in 1..Len(f.frames) |-> ResolveDisposal(f.frames[i].disp)]]

\* a reader that is given no source_path and so never parses the chunks
ExtractWithoutTimingCorrection(f, require_animated) ==
    LET n == Len(f.frames)
        info_duration == InfoGet(f.defdur, IntV(DefaultDurationMs))
        default_duration == IF ~IsInt(info_duration) \/ info_duration.n <= 0
                            THEN IntV(DefaultDurationMs) ELSE info_duration
        decoded == [i \in 1..n |-> ResolveDuration(f.frames[i].dur, default_duration)]
        parsed == [i \in 1..Len(f.raw) |-> IntV(f.raw[i])]
        corrected == FALSE
        info_loop == InfoGet(f.loop, IntV(0))
    IN  [raise |-> IF f.fmt \notin {"GIF", "PNG", "WEBP"}
                   THEN "Unsupported animated source format"
                   ELSE IF require_animated /\ n <= 1
                   THEN "Input image is not an animated image"
                   ELSE "",
         frames |-> PixelsRGBA(f),
         durations |-> IF corrected THEN parsed ELSE decoded,
         loop |-> IF ~IsInt(info_loop) \/ info_loop.n < 0 THEN IntV(0) ELSE info_loop,
         disposals |-> [i \in 1..n |-> ResolveDisposal(f.frames[i].disp)],
         image_format |-> f.fmt]

\* _extract_animation_frames (source_path is always given by the callers);
\* raise is the ValueError it raises, or ""
_extract_animation_frames(f, require_animated) ==
    LET n == Len(f.frames)
        info_duration == InfoGet(f.defdur, IntV(DefaultDurationMs))
        default_duration == IF ~IsInt(info_duration) \/ info_duration.n <= 0
                            THEN IntV(DefaultDurationMs) ELSE info_duration
        decoded == [i \in 1..n |-> ResolveDuration(f.frames[i].dur, default_duration)]
        parsed == [i \in 1..Len(f.raw) |-> IntV(f.raw[i])]
        corrected == f.fmt \in {"WEBP", "PNG"} /\ n > 1 /\ Len(parsed) > 0 /\ Len(parsed) = n
        info_loop == InfoGet(f.loop, IntV(0))
    IN  [raise |-> IF f.fmt \notin {"GIF", "PNG", "WEBP"}
                   THEN "Unsupported animated source format"
                   ELSE IF require_animated /\ n <= 1
                   THEN "Input image is not an animated image"
                   ELSE "",
         frames |-> PixelsRGBA(f),
         durations |-> IF corrected THEN parsed ELSE decoded,
         loop |-> IF ~IsInt(info_loop) \/ info_loop.n < 0 THEN IntV(0) ELSE info_loop,
         disposals |-> [i \in 1..n |-> ResolveDisposal(f.frames[i].disp)],
         image_format |-> f.fmt]

\* _get_frame_count: seek until EOFError
_get_frame_count(f) == Len(f.frames)

(***************************************************************************)
(* Raw timing chunks.  A buffer is the sequence of a file's bytes;         *)
(* positions count from 0 as in the source.  One step of a parser is one   *)
(* pass through the body of its loop: exit says how the pass ends ("next": *)
(* the loop goes on, "break", or "raise": an exception the parser catches),*)
(* reads is the set of positions the pass read.                            *)
(***************************************************************************)
Byte(data, pos) == data[pos + 1]

\* data[a:b]: a slice stops at the end of the buffer and never raises
Slice(data, a, b) == SubSeq(data, a + 1, Min2(b, Len(data)))

\* the positions of size bytes from pos
Span(pos, size) == pos..(pos + size - 1)

\* every one of the positions is a position of the buffer
Inside(data, positions) == positions \subseteq 0..(Len(data) - 1)

\* struct.unpack_from("<I", data, pos)[0]
UnpackLE32(data, pos) ==
    Byte(data, pos) + 256 * Byte(data, pos + 1) + 65536 * Byte(data, pos + 2)
    + 16777216 * Byte(data, pos + 3)

\* struct.unpack_from(">I", data, pos)[0]
UnpackBE32(data, pos) ==
    16777216 * Byte(data, pos) + 65536 * Byte(data, pos + 1) + 256 * Byte(data, pos + 2)
    + Byte(data, pos + 3)

\* struct.unpack_from(">H", data, pos)[0]
UnpackBE16(data, pos) == 256 * Byte(data, pos) + Byte(data, pos + 1)

\* b"RIFF", b"WEBP", b"ANMF", b"\x89PNG\r\n\x1a\n", b"fcTL"
RIFF == <<82, 73, 70, 70>>
WEBP == <<87, 69, 66, 80>>
ANMF == <<65, 78, 77, 70>>
PNG_SIGNATURE == <<137, 80, 78, 71, 13, 10, 26, 10>>
FCTL == <<102, 99, 84, 76>>

\* _extract_webp_durations: the test that returns None before the loop
WebpRejected(data) ==
    Len(data) < 12 \/ Slice(data, 0, 4) # RIFF \/ Slice(data, 8, 12) # WEBP

\* a loop that goes on while any byte is left
WebpWhileBytesLeft(offset, data_len) == offset < data_len

\* _extract_webp_durations: the condition of the while loop
WebpLoopGuard(offset, data_len) == offset + 8 <= data_len

\* _extract_webp_durations: one pass through the loop body
WebpStep(data, offset, durations) ==
    LET header == Span(offset, 4) \cup Span(offset + 4, 4)
    IN  IF ~Inside(data, Span(offset + 4, 4))
        THEN [exit |-> "raise", offset |-> offset, durations |-> durations, reads |-> header]
        ELSE
        LET chunk_id == Slice(data, offset, offset + 4)
            chunk_size == UnpackLE32(data, offset + 4)
            chunk_start == offset + 8
            chunk_end == chunk_start + chunk_size
        IN  IF chunk_end > Len(data)
            THEN [exit |-> "break", offset |-> offset, durations |-> durations,
                  reads |-> header]
            ELSE IF chunk_id = ANMF /\ chunk_size >= 16
            THEN LET duration == Byte(data, chunk_start + 12)
                                 + 256 * Byte(data, chunk_start + 13)
                                 + 65536 * Byte(data, chunk_start + 14)
                 IN  [exit |-> "next", offset |-> chunk_end + (chunk_size % 2),
                      durations |-> Append(durations, Max2(1, duration)),
                      reads |-> header \cup Span(chunk_start + 12, 3)]
            ELSE [exit |-> "next", offset |-> chunk_end + (chunk_size % 2),
                  durations |-> durations, reads |-> header]

\* the pairs <<delay_num, delay_den>> among the delays of the model whose
\* quotient times 1000 lies exactly halfway between two integers and whose
\* product in double precision lies above, or below, that half
DoubleAboveHalf == {<<161, 80>>, <<649, 80>>}
DoubleBelowHalf == {<<323, 80>>}

\* int(round((delay_num / delay_den) * 1000.0)) on doubles: the integer
\* nearest to the quotient; at an exact half Python rounds the double
\* product, to the even neighbour when the product is the half itself
RoundDelay(delay_num, delay_den) ==
    LET f == (delay_num * 1000) \div delay_den
        r == (delay_num * 1000) % delay_den
    IN  IF 2 * r < delay_den THEN f
        ELSE IF 2 * r > delay_den THEN f + 1
        ELSE IF <<delay_num, delay_den>> \in DoubleAboveHalf THEN f + 1
        ELSE IF <<delay_num, delay_den>> \in DoubleBelowHalf THEN f
        ELSE IF f % 2 = 0 THEN f ELSE f + 1

\* a conversion that truncates the quotient
ApngDelayTruncated(num, den) ==
    LET delay_den == IF den = 0 THEN 100 ELSE den
        delay_num == IF num = 0 THEN 1 ELSE num
    IN  Max2(1, (delay_num * 1000) \div delay_den)

\* _extract_apng_durations: the milliseconds of one fcTL delay
ApngDelayMs(num, den) ==
    LET delay_den == IF den = 0 THEN 100 ELSE den
        delay_num == IF num = 0 THEN 1 ELSE num
    IN  Max2(1, RoundDelay(delay_num, delay_den))

\* _extract_apng_durations: the test that returns None before the loop
ApngRejected(data) == Len(data) < 8 \/ Slice(data, 0, 8) # PNG_SIGNATURE

\* _extract_apng_durations: the condition of the while loop
ApngLoopGuard(offset, data_len) == offset + 12 <= data_len

\* _extract_apng_durations: one pass through the loop body
ApngStep(data, offset, durations) ==
    LET header == Span(offset, 4) \cup Span(offset + 4, 4)
    IN  IF ~Inside(data, Span(offset, 4))
        THEN [exit |-> "raise", offset |-> offset, durations |-> durations, reads |-> header]
        ELSE
        LET chunk_size == UnpackBE32(data, offset)
            chunk_type == Slice(data, offset + 4, offset + 8)
            chunk_start == offset + 8
            chunk_end == chunk_start + chunk_size
        IN  IF chunk_end + 4 > Len(data)
            THEN [exit |-> "break", offset |-> offset, durations |-> durations,
                  reads |-> header]
            ELSE IF chunk_type = FCTL /\ chunk_size >= 26
            THEN LET delay_num == UnpackBE16(data, chunk_start + 20)
                     delay_den == UnpackBE16(data, chunk_start + 22)
                 IN  [exit |-> "next", offset |-> chunk_end + 4,
                      durations |-> Append(durations, ApngDelayMs(delay_num, delay_den)),
                      reads |-> header \cup Span(chunk_start + 20, 4)]
            ELSE [exit |-> "next", offset |-> chunk_end + 4, durations |-> durations,
                  reads |-> header]

(***************************************************************************)
(* Container Writer.  fault is the encoder's fate: "none", or a failure    *)
(* after Image.save has opened the destination for writing; a failed save  *)
(* leaves a pre-existing destination truncated, and a destination it       *)
(* created either truncated ("encode_keep") or removed ("encode_cleanup"). *)
(***************************************************************************)
Faults == {"none", "encode_keep", "encode_cleanup"}

FailedSave(fsys, output_path, fault) ==
    [fsys EXCEPT ![output_path] =
        IF fsys[output_path].st = "absent" /\ fault = "encode_cleanup"
        THEN Absent ELSE Partial]

\* the delay a decode reports for a frame saved with this duration: a GIF
\* stores whole centiseconds, and a frame with no delay, no disposal and no
\* transparency gets no control block, so none is reported; APNG and WEBP
\* keep the value
StoredDelay(fmt, dur, disp, transparency) ==
    IF fmt # "GIF" \/ ~IsInt(dur) THEN dur
    ELSE LET delay == 10 * (dur.n \div 10)
         IN  IF delay = 0 /\ transparency = -1 /\ (disp.k = "none" \/ disp.n = 0)
             THEN NoneV ELSE IntV(delay)

\* the alpha a decode reports for a stored frame: a pixel of an indexed
\* frame whose index is the transparency index decodes with alpha 0, any
\* other with 255; a frame that is not indexed keeps its alpha
DecodedAlpha(frame, transparency) ==
    IF frame.index = <<>> \/ transparency = -1 THEN frame.alpha
    ELSE [p \in 1..Len(frame.index) |-> IF frame.index[p] = transparency THEN 0 ELSE 255]

\* the file a successful encode leaves: each frame with the delay and
\* disposal stored for it; a decode reports the first frame's delay as the
\* container-level one
Encoded(fmt, w) ==
    MkFile(fmt,
           [i \in 1..Len(w.frames) |->
               MkFrame(w.frames[i].px, w.frames[i].pal,
                       StoredDelay(fmt, w.durations[i],
                                   IF w.hasDisposal THEN w.disposals[i] ELSE NoneV,
                                   w.transparency),
                       IF w.hasDisposal THEN w.disposals[i] ELSE NoneV,
                       DecodedAlpha(w.frames[i], w.transparency),
                       w.frames[i].index)],
           StoredDelay(fmt, w.durations[1],
                       IF w.hasDisposal THEN w.disposals[1] ELSE NoneV, w.transparency),
           IF w.loop.k = "none" THEN IntV(0) ELSE w.loop,
           w.w, w.h,
           IF fmt = "GIF" THEN <<>>
           ELSE [i \in 1..Len(w.frames) |->
                    IF IsInt(w.durations[i]) THEN Max2(1, w.durations[i].n) ELSE 1])

\* _save_gif: hands the animation to the GIF encoder, which writes output_path
_save_gif(fsys, d, output_path, w, fault) ==
    IF Len(w.frames) = 0 THEN [raise |-> "ValueError", fs |-> fsys, wr |-> NoWrite]
    ELSE IF fault # "none"
    THEN [raise |-> "Exception", fs |-> FailedSave(fsys, output_path, fault), wr |-> w]
    ELSE [raise |-> "", fs |-> [fsys EXCEPT ![output_path] = Encoded("GIF", w)], wr |-> w]

\* the keyword arguments of a save call
WriteArgs(fmt, frames, durations, loop, hasDisposal, disposals, transparency, optimize, w, h) ==
    [called |-> TRUE, fmt |-> fmt, frames |-> frames, durations |-> durations,
     disposals |-> disposals, hasDisposal |-> hasDisposal, loop |-> loop,
     transparency |-> transparency, optimize |-> optimize, w |-> w, h |-> h]

(***************************************************************************)
(* Sanitizers.                                                             *)
(***************************************************************************)
\* a clamp that lacks the lower limit
ClampWithoutFloor(value) ==
    LET parsed == IF FloatOk(value) THEN value ELSE FloatV(100)
    IN  IF parsed.k = "nan" THEN MAX_SPEED_FACTOR
        ELSE LET factor == IF Hundredths(parsed) <= 0 THEN 100 ELSE Hundredths(parsed)
             IN  Min2(MAX_SPEED_FACTOR, factor)

\* _clamp_speed_factor, in hundredths.  float('nan') fails every comparison,
\* so min(MAX, nan) is MAX.
_clamp_speed_factor(value) ==
    LET parsed == IF FloatOk(value) THEN value ELSE FloatV(100)
    IN  IF parsed.k = "nan" THEN Max2(MIN_SPEED_FACTOR, MAX_SPEED_FACTOR)
        ELSE LET factor == IF Hundredths(parsed) <= 0 THEN 100 ELSE Hundredths(parsed)
             IN  Max2(MIN_SPEED_FACTOR, Min2(MAX_SPEED_FACTOR, factor))

\* max(1, int(d / factor)) for one duration; factor in hundredths
SpeedDuration(d, factor) == Max2(1, TruncDiv(Hundredths(d), factor))

\* the per-frame division raises on a duration that is no finite number
SpeedRaises(durations) == \E i \in 1..Len(durations) : durations[i].k \notin {"int", "float"}

(***************************************************************************)
(* Frame Transform Pipeline: reverse and change_speed.                     *)
(***************************************************************************)
\* loop_value = gif_loop if loop is None else loop
LoopValue(gif_loop, loop) == IF loop.k = "none" THEN gif_loop ELSE loop

\* GIFTool.reverse_gif
reverse_gif(fsys, d, input_path, output_path, loop, fault) ==
    LET f == fsys[input_path]
        opened == OpenImage(f)
    IN  IF opened = "FileNotFoundError"
        THEN Outcome(_error_response("GIF_INPUT_NOT_FOUND", "Input file not found"), fsys, d, NoWrite)
        ELSE IF opened = "UnidentifiedImageError"
        THEN Outcome(_error_response("GIF_UNSUPPORTED_IMAGE", "Unsupported image format"), fsys, d, NoWrite)
        ELSE IF f.fmt # "GIF"
        THEN Outcome(_error_response("GIF_REVERSE_FAILED", "Input file is not a GIF"), fsys, d, NoWrite)
        ELSE
        LET ex == _extract_gif_frames(f)
            frames == Reverse(ex.frames)
            durations == Reverse(ex.durations)
            d2 == _ensure_parent_dir(d, output_path)
            sv == _save_gif(fsys, d2, output_path,
                            WriteArgs("GIF", frames, durations, LoopValue(ex.loop, loop),
                                      FALSE, <<>>, -1, FALSE, f.w, f.h),
                            fault)
        IN  IF sv.raise # ""
            THEN Outcome(_error_response("GIF_REVERSE_FAILED", sv.raise), sv.fs, d2, sv.wr)
            ELSE Outcome([Ok EXCEPT !.frame_count = Len(frames)], sv.fs, d2, sv.wr)

\* GIFTool.change_speed
change_speed(fsys, d, input_path, output_path, speed_factor, loop, fault) ==
    LET f == fsys[input_path]
        opened == OpenImage(f)
    IN  IF opened = "FileNotFoundError"
        THEN Outcome(_error_response("GIF_INPUT_NOT_FOUND", "Input file not found"), fsys, d, NoWrite)
        ELSE IF opened = "UnidentifiedImageError"
        THEN Outcome(_error_response("GIF_UNSUPPORTED_IMAGE", "Unsupported image format"), fsys, d, NoWrite)
        ELSE IF f.fmt # "GIF"
        THEN Outcome(_error_response("GIF_SPEED_CHANGE_FAILED", "Input file is not a GIF"), fsys, d, NoWrite)
        ELSE
        LET ex == _extract_gif_frames(f)
            factor == _clamp_speed_factor(speed_factor)
        IN  IF SpeedRaises(ex.durations)
            THEN Outcome(_error_response("GIF_SPEED_CHANGE_FAILED", "TypeError"), fsys, d, NoWrite)
            ELSE
            LET new_durations == [i \in 1..Len(ex.durations) |->
                                     IntV(SpeedDuration(ex.durations[i], factor))]
                d2 == _ensure_parent_dir(d, output_path)
                sv == _save_gif(fsys, d2, output_path,
                                WriteArgs("GIF", ex.frames, new_durations, LoopValue(ex.loop, loop),
                                          FALSE, <<>>, -1, FALSE, f.w, f.h),
                                fault)
            IN  IF sv.raise # ""
                THEN Outcome(_error_response("GIF_SPEED_CHANGE_FAILED", sv.raise), sv.fs, d2, sv.wr)
                ELSE Outcome([Ok EXCEPT !.frame_count = Len(ex.frames), !.speed_factor = factor],
                             sv.fs, d2, sv.wr)

\* a sanitizer that falls back to 1.0, as the speed factor's does
SanitizeFpsAsFactor(value) ==
    IF ~FloatOk(value) THEN 100
    ELSE IF value.k = "nan" THEN -1
    ELSE IF Hundredths(value) <= 0 THEN 100
    ELSE Hundredths(value)

\* _sanitize_fps, in hundredths; -1 stands for float('nan')
_sanitize_fps(value) ==
    IF ~FloatOk(value) THEN DEFAULT_FPS * 100
    ELSE IF value.k = "nan" THEN -1
    ELSE IF Hundredths(value) <= 0 THEN DEFAULT_FPS * 100
    ELSE Hundredths(value)

\* a sanitizer that returns the rounded value without the clamp
SanitizeQualityUnclamped(value) ==
    IF FloatOk(value) /\ value.k # "nan"
    THEN RoundSigned(Hundredths(value), 100) ELSE DefaultQuality

\* _sanitize_quality: int(round(float(value))) raises ValueError on nan
_sanitize_quality(value) ==
    LET quality == IF FloatOk(value) /\ value.k # "nan"
                   THEN RoundSigned(Hundredths(value), 100) ELSE DefaultQuality
    IN  Max2(MIN_QUALITY, Min2(MAX_QUALITY, quality))

\* a dimension taken by magnitude, so that a negative one counts as set
DimensionMagnitude(value) ==
    LET dim == IF FloatOk(value) /\ value.k # "nan"
               THEN RoundSigned(Hundredths(value), 100) ELSE 0
    IN  IF dim < 0 THEN -dim ELSE dim

\* _sanitize_dimension
_sanitize_dimension(value) ==
    LET dim == IF FloatOk(value) /\ value.k # "nan"
               THEN RoundSigned(Hundredths(value), 100) ELSE 0
    IN  Max2(0, dim)

BoolV(b) == [k |-> "bool", n |-> IF b THEN 1 ELSE 0]

\* _coerce_bool; the model's one string value is in neither word list
_coerce_bool(value, default) ==
    CASE value.k = "none" -> default
      [] value.k = "bool" -> value.n = 1
      [] OTHER -> Truthy(value)

\* a resize that ignores keep_aspect: the given sides, the source's for the rest
ResolveWithoutAspect(src_width, src_height, target_width, target_height, keep_aspect) ==
    <<Max2(1, IF target_width > 0 THEN target_width ELSE src_width),
      Max2(1, IF target_height > 0 THEN target_height ELSE src_height)>>

\* a resize that fits the source around the box: the larger of the two scales
ResolveByLargerScale(src_width, src_height, target_width, target_height, keep_aspect) ==
    IF ~keep_aspect
    THEN <<Max2(1, IF target_width > 0 THEN target_width ELSE src_width),
           Max2(1, IF target_height > 0 THEN target_height ELSE src_height)>>
    ELSE IF target_width > 0 /\ target_height > 0
    THEN IF target_width * src_height >= target_height * src_width
         THEN <<Max2(1, RoundDiv(src_width * target_width, src_width)),
                Max2(1, RoundDiv(src_height * target_width, src_width))>>
         ELSE <<Max2(1, RoundDiv(src_width * target_height, src_height)),
                Max2(1, RoundDiv(src_height * target_height, src_height))>>
    ELSE IF target_width > 0
    THEN <<Max2(1, target_width), Max2(1, RoundDiv(src_height * target_width, src_width))>>
    ELSE <<Max2(1, RoundDiv(src_width * target_height, src_height)), Max2(1, target_height)>>

\* _resolve_resize_size, for a source size with both sides positive.  The
\* source rounds a product of doubles; on the sizes of the model that is the
\* rounding of the exact quotient, halves to the even neighbour
_resolve_resize_size(src_width, src_height, target_width, target_height, keep_aspect) ==
    IF ~keep_aspect
    THEN <<Max2(1, IF target_width > 0 THEN target_width ELSE src_width),
           Max2(1, IF target_height > 0 THEN target_height ELSE src_height)>>
    ELSE IF target_width > 0 /\ target_height > 0
    THEN IF target_width * src_height <= target_height * src_width
         THEN <<Max2(1, RoundDiv(src_width * target_width, src_width)),
                Max2(1, RoundDiv(src_height * target_width, src_width))>>
         ELSE <<Max2(1, RoundDiv(src_width * target_height, src_height)),
                Max2(1, RoundDiv(src_height * target_height, src_height))>>
    ELSE IF target_width > 0
    THEN <<Max2(1, target_width), Max2(1, RoundDiv(src_height * target_width, src_width))>>
    ELSE <<Max2(1, RoundDiv(src_width * target_height, src_height)), Max2(1, target_height)>>

(***************************************************************************)
(* Budget Guard.                                                           *)
(***************************************************************************)
\* frame_count * width * height > budget on Python's unbounded integers,
\* for positive operands: decided by division, so that no product is formed
\* that the checker's 32-bit integers cannot hold
OverBudget(frame_count, width, height, budget) ==
    frame_count > (budget \div height) \div width

\* a budget test on one frame's area, whatever the frame count
BudgetPerFrame(frame_count, width, height) ==
    IF frame_count <= 0 THEN ""
    ELSE IF width <= 0 \/ height <= 0 THEN "ValueError"
    ELSE IF OverBudget(1, width, height, MAX_FRAME_PIXEL_BUDGET) THEN "MemoryError"
    ELSE ""

\* _assert_frame_pixel_budget: the exception it raises, or ""
_assert_frame_pixel_budget(frame_count, width, height) ==
    IF frame_count <= 0 THEN ""
    ELSE IF width <= 0 \/ height <= 0 THEN "ValueError"
    ELSE IF OverBudget(frame_count, width, height, MAX_FRAME_PIXEL_BUDGET) THEN "MemoryError"
    ELSE ""

(***************************************************************************)
(* Palette Quantizer.                                                      *)
(***************************************************************************)
\* a palette size that is not clamped
PaletteSizeUnclamped(quality) == RoundDiv(quality * 255, 100)

\* _quality_to_palette_size; on the qualities 1..100 the double
\* (quality / 100.0) * 255 rounds as the exact quotient does, halves to even
_quality_to_palette_size(quality) == Max2(16, Min2(255, RoundDiv(quality * 255, 100)))

\* the palette the quantized frame ends with: getpalette() gives three
\* values for each colour, and a list shorter than 768 is filled up with
\* zeros to 768 values, 256 entries
PaddedEntries(colors) == (IF 3 * colors < 768 THEN 3 * colors + (768 - 3 * colors)
                          ELSE 3 * colors) \div 3

\* the index the quantizer gives an opaque pixel: the body of the picture
\* takes the first colour, the detail the last of the colours asked for
ColorIndex(p, colors) == IF p = 1 THEN 0 ELSE colors - 1

\* a quantizer that leaves out the transparency mask
QuantizeWithoutMask(frame, palette_size) ==
    LET colors == Max2(2, Min2(255, palette_size))
    IN  [px |-> frame.px, pal |-> colors, alpha |-> frame.alpha,
         index |-> [p \in 1..Len(frame.alpha) |-> ColorIndex(p, colors)],
         transparency |-> 255, entries |-> PaddedEntries(colors)]

\* a quantizer that asks for one colour more, up to all 256 indices
QuantizeOnAllIndices(frame, palette_size) ==
    LET colors == Max2(2, Min2(256, palette_size + 1))
    IN  [px |-> frame.px, pal |-> colors,
         alpha |-> [p \in 1..Len(frame.alpha) |-> IF frame.alpha[p] <= 127 THEN 0 ELSE 255],
         index |-> [p \in 1..Len(frame.alpha) |->
                      IF frame.alpha[p] <= 127 THEN 255 ELSE ColorIndex(p, colors)],
         transparency |-> 255, entries |-> PaddedEntries(colors)]

\* _quantize_rgba_frame: the frame indexed on max(2, min(255, palette_size))
\* colours, which take the indices below that number; every pixel with
\* alpha <= 127 is then set to index 255, the frame's transparency index
_quantize_rgba_frame(frame, palette_size) ==
    LET colors == Max2(2, Min2(255, palette_size))
    IN  [px |-> frame.px, pal |-> colors,
         alpha |-> [p \in 1..Len(frame.alpha) |-> IF frame.alpha[p] <= 127 THEN 0 ELSE 255],
         index |-> [p \in 1..Len(frame.alpha) |->
                      IF frame.alpha[p] <= 127 THEN 255 ELSE ColorIndex(p, colors)],
         transparency |-> 255, entries |-> PaddedEntries(colors)]

\* frame.resize(size, resample=LANCZOS): a frame resized to its own size is
\* a copy; otherwise every pixel is a weighted sum over its neighbourhood,
\* so the detail takes three parts in four of the body's alpha
Resized(frame, from_size, to_size) ==
    IF from_size = to_size THEN frame
    ELSE [frame EXCEPT !.alpha = <<frame.alpha[1],
                                   (3 * frame.alpha[1] + frame.alpha[2]) \div 4>>]

(***************************************************************************)
(* compress and resize.                                                    *)
(***************************************************************************)
\* a compress that quantizes the frames and creates the output directory
\* before it checks the budget
CompressCheckingLate(fsys, d, input_path, output_path, quality, loop, fault) ==
    LET f == fsys[input_path]
        opened == OpenImage(f)
    IN  IF opened = "FileNotFoundError"
        THEN Outcome(_error_response("GIF_INPUT_NOT_FOUND", "Input file not found"), fsys, d, NoWrite)
        ELSE IF opened = "UnidentifiedImageError"
        THEN Outcome(_error_response("GIF_UNSUPPORTED_IMAGE", "Unsupported image format"), fsys, d, NoWrite)
        ELSE IF f.fmt # "GIF"
        THEN Outcome(_error_response("GIF_COMPRESS_FAILED", "Input file is not a GIF"), fsys, d, NoWrite)
        ELSE
        LET ex == _extract_gif_frames_with_disposal(f)
            quality_value == _sanitize_quality(quality)
            palette_size == _quality_to_palette_size(quality_value)
            frames == [i \in 1..Len(ex.frames) |->
                          _quantize_rgba_frame(ex.frames[i], palette_size)]
            d2 == _ensure_parent_dir(d, output_path)
            budget == _assert_frame_pixel_budget(Len(ex.frames), f.w, f.h)
        IN  IF budget = "MemoryError"
            THEN Outcome(_error_response("GIF_MEMORY_LIMIT", "GIF is too large to process safely"),
                         fsys, d2, [NoWrite EXCEPT !.frames = frames])
            ELSE IF budget # ""
            THEN Outcome(_error_response("GIF_COMPRESS_FAILED", budget), fsys, d2, NoWrite)
            ELSE
            LET sv == _save_gif(fsys, d2, output_path,
                                WriteArgs("GIF", frames, ex.durations, LoopValue(ex.loop, loop),
                                          TRUE, ex.disposals, 255, TRUE, f.w, f.h),
                                fault)
            IN  IF sv.raise # ""
                THEN Outcome(_error_response("GIF_COMPRESS_FAILED", sv.raise), sv.fs, d2, sv.wr)
                ELSE Outcome([Ok EXCEPT !.frame_count = Len(frames), !.quality = quality_value],
                             sv.fs, d2, sv.wr)

\* GIFTool.compress_gif
compress_gif(fsys, d, input_path, output_path, quality, loop, fault) ==
    LET f == fsys[input_path]
        opened == OpenImage(f)
    IN  IF opened = "FileNotFoundError"
        THEN Outcome(_error_response("GIF_INPUT_NOT_FOUND", "Input file not found"), fsys, d, NoWrite)
        ELSE IF opened = "UnidentifiedImageError"
        THEN Outcome(_error_response("GIF_UNSUPPORTED_IMAGE", "Unsupported image format"), fsys, d, NoWrite)
        ELSE IF f.fmt # "GIF"
        THEN Outcome(_error_response("GIF_COMPRESS_FAILED", "Input file is not a GIF"), fsys, d, NoWrite)
        ELSE
        LET ex == _extract_gif_frames_with_disposal(f)
            budget == _assert_frame_pixel_budget(Len(ex.frames), f.w, f.h)
        IN  IF budget = "MemoryError"
            THEN Outcome(_error_response("GIF_MEMORY_LIMIT", "GIF is too large to process safely"),
                         fsys, d, NoWrite)
            ELSE IF budget # ""
            THEN Outcome(_error_response("GIF_COMPRESS_FAILED", budget), fsys, d, NoWrite)
            ELSE
            LET quality_value == _sanitize_quality(quality)
                palette_size == _quality_to_palette_size(quality_value)
                frames == [i \in 1..Len(ex.frames) |->
                              _quantize_rgba_frame(ex.frames[i], palette_size)]
                d2 == _ensure_parent_dir(d, output_path)
                sv == _save_gif(fsys, d2, output_path,
                                WriteArgs("GIF", frames, ex.durations, LoopValue(ex.loop, loop),
                                          TRUE, ex.disposals, 255, TRUE, f.w, f.h),
                                fault)
            IN  IF sv.raise # ""
                THEN Outcome(_error_response("GIF_COMPRESS_FAILED", sv.raise), sv.fs, d2, sv.wr)
                ELSE Outcome([Ok EXCEPT !.frame_count = Len(frames), !.quality = quality_value],
                             sv.fs, d2, sv.wr)

\* GIFTool.resize_gif
resize_gif(fsys, d, input_path, output_path, width, height, maintain_aspect, loop, fault) ==
    LET f == fsys[input_path]
        opened == OpenImage(f)
    IN  IF opened = "FileNotFoundError"
        THEN Outcome(_error_response("GIF_INPUT_NOT_FOUND", "Input file not found"), fsys, d, NoWrite)
        ELSE IF opened = "UnidentifiedImageError"
        THEN Outcome(_error_response("GIF_UNSUPPORTED_IMAGE", "Unsupported image format"), fsys, d, NoWrite)
        ELSE IF f.fmt # "GIF"
        THEN Outcome(_error_response("GIF_RESIZE_FAILED", "Input file is not a GIF"), fsys, d, NoWrite)
        ELSE
        LET ex == _extract_gif_frames_with_disposal(f)
            target_width == _sanitize_dimension(width)
            target_height == _sanitize_dimension(height)
            keep_aspect == _coerce_bool(maintain_aspect, TRUE)
        IN  IF target_width <= 0 /\ target_height <= 0
            THEN Outcome(_error_response("GIF_RESIZE_INVALID_SIZE", "Missing width or height for resize"),
                         fsys, d, NoWrite)
            ELSE IF f.w <= 0 \/ f.h <= 0
            THEN Outcome(_error_response("GIF_RESIZE_FAILED", "Invalid source GIF size"), fsys, d, NoWrite)
            ELSE
            LET resized_size == _resolve_resize_size(f.w, f.h, target_width, target_height, keep_aspect)
                budget == _assert_frame_pixel_budget(Len(ex.frames),
                                                     Max2(f.w, resized_size[1]),
                                                     Max2(f.h, resized_size[2]))
            IN  IF budget = "MemoryError"
                THEN Outcome(_error_response("GIF_MEMORY_LIMIT", "GIF is too large to process safely"),
                             fsys, d, NoWrite)
                ELSE IF budget # ""
                THEN Outcome(_error_response("GIF_RESIZE_FAILED", budget), fsys, d, NoWrite)
                ELSE
                LET frames == [i \in 1..Len(ex.frames) |->
                                  _quantize_rgba_frame(
                                      Resized(ex.frames[i], <<f.w, f.h>>, resized_size), 255)]
                    d2 == _ensure_parent_dir(d, output_path)
                    sv == _save_gif(fsys, d2, output_path,
                                    WriteArgs("GIF", frames, ex.durations, LoopValue(ex.loop, loop),
                                              TRUE, ex.disposals, 255, FALSE,
                                              resized_size[1], resized_size[2]),
                                    fault)
                IN  IF sv.raise # ""
                    THEN Outcome(_error_response("GIF_RESIZE_FAILED", sv.raise), sv.fs, d2, sv.wr)
                    ELSE Outcome([Ok EXCEPT !.frame_count = Len(frames),
                                            !.width = resized_size[1],
                                            !.height = resized_size[2],
                                            !.original_width = f.w,
                                            !.original_height = f.h],
                                 sv.fs, d2, sv.wr)

(***************************************************************************)
(* build_gif and convert_animation.                                        *)
(***************************************************************************)
\* a writer that hands the disposal values on as they are
SaveApngUnclamped(fsys, output_path, w, fault) ==
    IF Len(w.frames) = 0 THEN [raise |-> "ValueError", fs |-> fsys, wr |-> NoWrite]
    ELSE IF fault # "none"
    THEN [raise |-> "Exception", fs |-> FailedSave(fsys, output_path, fault), wr |-> w]
    ELSE [raise |-> "", fs |-> [fsys EXCEPT ![output_path] = Encoded("PNG", w)], wr |-> w]

\* _save_apng: disposal values are clamped into 0..2
_save_apng(fsys, output_path, w, fault) ==
    LET clamped == [w EXCEPT !.disposals =
                       [i \in 1..Len(w.disposals) |->
                           IntV(Max2(0, Min2(2, w.disposals[i].n)))]]
    IN  IF Len(w.frames) = 0 THEN [raise |-> "ValueError", fs |-> fsys, wr |-> NoWrite]
        ELSE IF fault # "none"
        THEN [raise |-> "Exception", fs |-> FailedSave(fsys, output_path, fault), wr |-> clamped]
        ELSE [raise |-> "", fs |-> [fsys EXCEPT ![output_path] = Encoded("PNG", clamped)],
              wr |-> clamped]

\* _save_webp: lossless, no disposal argument
_save_webp(fsys, output_path, w, fault) ==
    IF Len(w.frames) = 0 THEN [raise |-> "ValueError", fs |-> fsys, wr |-> NoWrite]
    ELSE IF fault # "none"
    THEN [raise |-> "Exception", fs |-> FailedSave(fsys, output_path, fault), wr |-> w]
    ELSE [raise |-> "", fs |-> [fsys EXCEPT ![output_path] = Encoded("WEBP", w)], wr |-> w]

\* a canvas that takes the size of the first still
CanvasOfFirstStill(sizes) == IF Len(sizes) = 0 THEN <<0, 0>> ELSE sizes[1]

\* _pad_to_size.  A frame of build_gif carries its size, and where the
\* still's pixels lie in it: content is the size of the region they fill, at
\* its top-left corner, fill the alpha of every pixel outside it
_pad_to_size(img, size) ==
    IF img.size = size THEN img
    ELSE [img EXCEPT !.size = size, !.at = <<0, 0>>, !.fill = 0]

\* _choose_canvas_size over the stills' sizes
_choose_canvas_size(sizes) ==
    IF Len(sizes) = 0 THEN <<0, 0>>
    ELSE <<CHOOSE m \in {sizes[i][1] : i \in 1..Len(sizes)} :
               \A i \in 1..Len(sizes) : sizes[i][1] <= m,
           CHOOSE m \in {sizes[i][2] : i \in 1..Len(sizes)} :
               \A i \in 1..Len(sizes) : sizes[i][2] <= m>>

\* [p for p in paths if p]
Truthy_paths(paths) == SelectSeq(paths, LAMBDA p : p # "")

\* GIFTool.build_gif; fps_value -1 is nan, on which int(1000 / fps) raises
build_gif(fsys, d, input_paths, output_path, fps, loop, fault) ==
    LET paths == Truthy_paths(input_paths)
        fps_value == _sanitize_fps(fps)
        bad == {i \in 1..Len(paths) : OpenImage(fsys[paths[i]]) # "ok"}
        first_bad == CHOOSE i \in bad : \A j \in bad : i <= j
    IN  IF Len(paths) = 0
        THEN Outcome(_error_response("GIF_BUILD_NO_INPUT", "No input images provided"), fsys, d, NoWrite)
        ELSE IF fps_value = -1
        THEN Outcome(_error_response("GIF_BUILD_FAILED", "cannot convert float NaN to integer"),
                     fsys, d, NoWrite)
        ELSE IF bad # {}
        THEN IF OpenImage(fsys[paths[first_bad]]) = "FileNotFoundError"
             THEN Outcome(_error_response("GIF_INPUT_NOT_FOUND", "Input file not found"), fsys, d, NoWrite)
             ELSE Outcome(_error_response("GIF_UNSUPPORTED_IMAGE", "Unsupported image format"),
                          fsys, d, NoWrite)
        ELSE
        LET duration_ms == Max2(1, TruncDiv(1000 * 100, fps_value))
            sizes == [i \in 1..Len(paths) |-> <<fsys[paths[i]].w, fsys[paths[i]].h>>]
            loaded == [i \in 1..Len(paths) |->
                          [px |-> fsys[paths[i]].frames[1].px, pal |-> 0,
                           alpha |-> fsys[paths[i]].frames[1].alpha, index |-> <<>>,
                           size |-> sizes[i], content |-> sizes[i], at |-> <<0, 0>>,
                           fill |-> -1]]
            canvas_size == _choose_canvas_size(sizes)
            frames == [i \in 1..Len(paths) |-> _pad_to_size(loaded[i], canvas_size)]
            d2 == _ensure_parent_dir(d, output_path)
            sv == _save_gif(fsys, d2, output_path,
                            WriteArgs("GIF", frames, [i \in 1..Len(frames) |-> IntV(duration_ms)],
                                      loop, FALSE, <<>>, -1, FALSE,
                                      canvas_size[1], canvas_size[2]),
                            fault)
        IN  IF sv.raise # ""
            THEN Outcome(_error_response("GIF_BUILD_FAILED", sv.raise), sv.fs, d2, sv.wr)
            ELSE Outcome([Ok EXCEPT !.frame_count = Len(frames), !.fps = fps_value], sv.fs, d2, sv.wr)

\* str(value or "").strip().lower() on the format and action strings of the model
StripLower(text) ==
    CASE text = " WebP " -> "webp"
      [] text = " Reverse " -> "reverse"
      [] text = " Nonsense " -> "nonsense"
      [] OTHER -> text

\* a sanitizer that lets a format it does not know through
SanitizeFormatLeniently(value) ==
    LET text == StripLower(value)
    IN  IF text \in {"png", "apng"} THEN "apng" ELSE text

\* _sanitize_animation_output_format: "" stands for the ValueError
_sanitize_animation_output_format(value) ==
    LET text == StripLower(value)
    IN  IF text \in {"png", "apng"} THEN "apng"
        ELSE IF text \in {"gif", "webp"} THEN text
        ELSE ""

\* GIFTool.convert_animation
convert_animation(fsys, d, input_path, output_path, output_format, quality, loop, fault) ==
    LET target == _sanitize_animation_output_format(output_format)
        f == fsys[input_path]
        opened == OpenImage(f)
    IN  IF target = ""
        THEN Outcome(_error_response("ANIMATED_CONVERT_BAD_INPUT", "Unsupported output format"),
                     fsys, d, NoWrite)
        ELSE IF opened = "FileNotFoundError"
        THEN Outcome(_error_response("GIF_INPUT_NOT_FOUND", "Input file not found"), fsys, d, NoWrite)
        ELSE IF opened = "UnidentifiedImageError"
        THEN Outcome(_error_response("GIF_UNSUPPORTED_IMAGE", "Unsupported image format"), fsys, d, NoWrite)
        ELSE
        LET ex == _extract_animation_frames(f, TRUE)
        IN  IF ex.raise # ""
            THEN Outcome(_error_response("ANIMATED_CONVERT_BAD_INPUT", ex.raise), fsys, d, NoWrite)
            ELSE
            LET loop_value == LoopValue(ex.loop, loop)
                d2 == _ensure_parent_dir(d, output_path)
                quantized == [i \in 1..Len(ex.frames) |-> _quantize_rgba_frame(ex.frames[i], 255)]
            IN  IF target \notin {"gif", "apng", "webp"}
                THEN Outcome(_error_response("ANIMATED_CONVERT_BAD_FORMAT",
                                             "Unsupported output format"), fsys, d2, NoWrite)
                ELSE
            LET sv == CASE target = "gif" ->
                             _save_gif(fsys, d2, output_path,
                                       WriteArgs("GIF", quantized, ex.durations, loop_value,
                                                 TRUE, ex.disposals, 255, FALSE, f.w, f.h),
                                       fault)
                        [] target = "apng" ->
                             _save_apng(fsys, output_path,
                                        WriteArgs("PNG", ex.frames, ex.durations, loop_value,
                                                  TRUE, ex.disposals, -1, FALSE, f.w, f.h),
                                        fault)
                        [] target = "webp" ->
                             _save_webp(fsys, output_path,
                                        WriteArgs("WEBP", ex.frames, ex.durations, loop_value,
                                                  FALSE, <<>>, -1, FALSE, f.w, f.h),
                                        fault)
            IN  IF sv.raise # ""
                THEN Outcome(_error_response("ANIMATED_CONVERT_FAILED", sv.raise), sv.fs, d2, sv.wr)
                ELSE Outcome([Ok EXCEPT !.frame_count = Len(ex.frames),
                                        !.output_format = target,
                                        !.source_format = ex.image_format],
                             sv.fs, d2, sv.wr)

(***************************************************************************)
(* export_frames.  A frame range is kept parsed: kind "all", "range"       *)
(* (a-b), "step" (a:b), "single" (a), or "bad" for text that int() or the  *)
(* unpacking rejects; kind "" is an absent frame_range.                    *)
(***************************************************************************)
RangeSpec(kind, a, b) == [kind |-> kind, a |-> a, b |-> b]

\* range(lo, hi, step) for step > 0, as a sequence
PyRange(lo, hi, step) ==
    [k \in 1..(IF lo >= hi THEN 0 ELSE (hi - lo + step - 1) \div step) |-> lo + (k - 1) * step]

\* a parser that takes the end of "start-end" as exclusive
ParseRangeExclusiveEnd(frame_range, total_frames) ==
    CASE frame_range.kind \in {"", "all"} -> PyRange(0, total_frames, 1)
      [] frame_range.kind = "range" ->
            PyRange(frame_range.a, Min2(frame_range.b, total_frames), 1)
      [] frame_range.kind = "step" /\ frame_range.b # 0 ->
            PyRange(frame_range.a, total_frames, frame_range.b)
      [] frame_range.kind = "single" -> <<frame_range.a>>
      [] OTHER -> PyRange(0, total_frames, 1)

\* _parse_frame_range
_parse_frame_range(frame_range, total_frames) ==
    CASE frame_range.kind \in {"", "all"} -> PyRange(0, total_frames, 1)
      [] frame_range.kind = "range" ->
            PyRange(frame_range.a, Min2(frame_range.b + 1, total_frames), 1)
      [] frame_range.kind = "step" /\ frame_range.b # 0 ->
            PyRange(frame_range.a, total_frames, frame_range.b)
      [] frame_range.kind = "single" -> <<frame_range.a>>
      [] OTHER -> PyRange(0, total_frames, 1)

\* Path(input_path).stem
Stem(p) == IF p = PathB THEN "b" ELSE "a"

\* str.lower() on the format strings of the model
Lower(text) == IF text = "PNG" THEN "png" ELSE text

FRAME_OUTPUT_FORMATS == {"png", "bmp"}

\* the index written without padding
UnpaddedIndex(i) ==
    IF i < 10 THEN <<i>>
    ELSE IF i < 100 THEN <<i \div 10, i % 10>>
    ELSE IF i < 1000 THEN <<i \div 100, (i \div 10) % 10, i % 10>>
    ELSE <<i \div 1000, (i \div 100) % 10, (i \div 10) % 10, i % 10>>

\* f"{frame_idx:04d}": the decimal digits of the index, left-padded with
\* zeros to four places (the first place holds what exceeds four digits)
Pad4(i) == <<i \div 1000, (i \div 100) % 10, (i \div 10) % 10, i % 10>>

\* os.path.join(output_dir, f"{base_name}_frame_{frame_idx:04d}.{output_format}")
FramePath(dir, stem, idx, ext) ==
    [dir |-> dir, stem |-> stem, idx |-> idx, digits |-> Pad4(idx), ext |-> ext]

\* GIFTool.export_frames; ex is the set of frame files on disk, each
\* [path, st].  A failing encoder fails on the first frame it is given.
export_frames(fsys, d, ex, input_path, output_dir, requested_format, frame_range, fault) ==
    LET output_format == Lower(requested_format)
        f == fsys[input_path]
        opened == OpenImage(f)
        same(o) == [resp |-> o.resp, fs |-> o.fs, dirs |-> o.dirs, wr |-> o.wr, exported |-> ex]
    IN  IF output_format \notin FRAME_OUTPUT_FORMATS
        THEN same(Outcome(_error_response("GIF_EXPORT_UNSUPPORTED_FORMAT", "Unsupported output format"),
                          fsys, d, NoWrite))
        ELSE IF opened = "FileNotFoundError"
        THEN same(Outcome(_error_response("GIF_INPUT_NOT_FOUND", "Input file not found"), fsys, d, NoWrite))
        ELSE IF opened = "UnidentifiedImageError"
        THEN same(Outcome(_error_response("GIF_UNSUPPORTED_IMAGE", "Unsupported image format"),
                          fsys, d, NoWrite))
        ELSE
        LET an == _extract_animation_frames(f, TRUE)
            frame_count == Len(an.frames)
            frame_indices == SelectSeq(_parse_frame_range(frame_range, frame_count),
                                       LAMBDA i : 0 <= i /\ i < frame_count)
            d2 == d \cup {output_dir}
            path(k) == FramePath(output_dir, Stem(input_path), frame_indices[k], output_format)
            frame_files == [k \in 1..Len(frame_indices) |-> path(k)]
            written == {path(k) : k \in 1..Len(frame_indices)}
            existed == \E e \in ex : e.path = path(1)
        IN  IF an.raise # ""
            THEN same(Outcome(_error_response("GIF_EXPORT_FAILED", an.raise), fsys, d, NoWrite))
            ELSE IF Len(frame_indices) = 0
            THEN same(Outcome(_error_response("GIF_EXPORT_EMPTY_SELECTION", "No frames selected for export"),
                              fsys, d, NoWrite))
            ELSE IF fault # "none"
            THEN [resp |-> _error_response("GIF_EXPORT_FAILED", "Exception"),
                  fs |-> fsys, dirs |-> d2, wr |-> NoWrite,
                  exported |-> {e \in ex : e.path # path(1)} \cup
                               (IF existed \/ fault = "encode_keep"
                                THEN {[path |-> path(1), st |-> "partial"]} ELSE {})]
            ELSE [resp |-> [Ok EXCEPT !.frame_count = frame_count,
                                      !.export_count = Len(frame_files),
                                      !.frame_paths = frame_files],
                  fs |-> fsys, dirs |-> d2, wr |-> NoWrite,
                  exported |-> {e \in ex : e.path \notin written} \cup
                               {[path |-> p, st |-> "ok"] : p \in written}]

(***************************************************************************)
(* Request Router.                                                         *)
(***************************************************************************)
BlankRequest ==
    [isdict |-> TRUE, action |-> "", input_path |-> "", output_path |-> "",
     output_dir |-> "", output_format |-> "", frame_range |-> RangeSpec("", 0, 0),
     start_frame |-> NoneV, end_frame |-> NoneV,
     input_paths |-> <<>>, has_input_paths |-> FALSE,
     speed_factor |-> NoneV, quality |-> NoneV, width |-> NoneV, height |-> NoneV,
     maintain_aspect |-> NoneV, loop |-> NoneV, fps |-> NoneV]

\* _build_frame_range_from_request; str() of a negative number holds a "-",
\* which the parser then fails to split into two integers
_build_frame_range_from_request(input_data) ==
    IF input_data.frame_range.kind # "" THEN input_data.frame_range
    ELSE IF IsInt(input_data.start_frame) \/ IsInt(input_data.end_frame)
    THEN LET start_value == IF IsInt(input_data.start_frame) THEN input_data.start_frame.n ELSE 0
             end_value == IF IsInt(input_data.end_frame) THEN input_data.end_frame.n ELSE 0
         IN  IF start_value = 0 /\ end_value = 0 THEN RangeSpec("all", 0, 0)
             ELSE IF start_value < 0 THEN RangeSpec("bad", 0, 0)
             ELSE IF end_value <= 0 THEN RangeSpec("single", start_value, 0)
             ELSE RangeSpec("range", start_value, end_value)
    ELSE RangeSpec("all", 0, 0)

\* a router that looks the action up as it was sent, untrimmed and in its case
NormalizeWithoutStrip(value) ==
    LET action == value
    IN  CASE action \in {"", "split", "export", "export_frames"} -> "export_frames"
          [] action \in {"reverse", "reverse_gif"} -> "reverse"
          [] action \in {"change_speed", "change_frame_rate", "speed"} -> "change_speed"
          [] action \in {"compress", "compress_gif"} -> "compress"
          [] action \in {"resize", "resize_gif", "scale", "scale_gif"} -> "resize"
          [] action \in {"build", "compose", "combine", "build_gif", "make_gif"} -> "build_gif"
          [] action \in {"convert", "convert_animation", "transcode", "convert_animated",
                         "convert_anim"} -> "convert_animation"
          [] action = "get_frame_count" -> "get_frame_count"
          [] OTHER -> action

\* _normalize_action
_normalize_action(value) ==
    LET action == StripLower(value)
    IN  CASE action \in {"", "split", "export", "export_frames"} -> "export_frames"
          [] action \in {"reverse", "reverse_gif"} -> "reverse"
          [] action \in {"change_speed", "change_frame_rate", "speed"} -> "change_speed"
          [] action \in {"compress", "compress_gif"} -> "compress"
          [] action \in {"resize", "resize_gif", "scale", "scale_gif"} -> "resize"
          [] action \in {"build", "compose", "combine", "build_gif", "make_gif"} -> "build_gif"
          [] action \in {"convert", "convert_animation", "transcode", "convert_animated",
                         "convert_anim"} -> "convert_animation"
          [] action = "get_frame_count" -> "get_frame_count"
          [] OTHER -> action

\* _coerce_input_paths
_coerce_input_paths(input_data) ==
    IF input_data.has_input_paths THEN Truthy_paths(input_data.input_paths)
    ELSE IF input_data.input_path # "" THEN <<input_data.input_path>>
    ELSE <<>>

\* an operation's outcome with the exported frame files left as they were
Keep(o, ex) == [resp |-> o.resp, fs |-> o.fs, dirs |-> o.dirs, wr |-> o.wr, exported |-> ex]

\* a rejection issued after the output directory has been prepared
BadRequestAfterMkdir(message, fsys, d, ex) ==
    Keep(Outcome(_error_response("GIF_BAD_REQUEST", message), fsys,
                 _ensure_parent_dir(d, PathB), NoWrite), ex)

\* return _error_response("GIF_BAD_REQUEST", ...): nothing has been opened
BadRequest(message, fsys, d, ex) ==
    Keep(Outcome(_error_response("GIF_BAD_REQUEST", message), fsys, d, NoWrite), ex)

\* the get_frame_count branch of handle_request
get_frame_count(fsys, d, input_path) ==
    LET f == fsys[input_path]
    IN  IF OpenImage(f) # "ok"
        THEN Outcome(_error_response("GIF_GET_FRAME_COUNT_FAILED", OpenImage(f)), fsys, d, NoWrite)
        ELSE IF f.fmt # "GIF"
        THEN Outcome(_error_response("GIF_GET_FRAME_COUNT_FAILED", "Input file is not a GIF"),
                     fsys, d, NoWrite)
        ELSE Outcome([Ok EXCEPT !.frame_count = _get_frame_count(f)], fsys, d, NoWrite)

\* handle_request; a request that is no JSON object has no get()
handle_request(input_data, fsys, d, ex, fault) ==
    IF ~input_data.isdict THEN Keep(Raised(fsys, d, NoWrite), ex)
    ELSE
    LET action == _normalize_action(input_data.action)
        input_path == input_data.input_path
        output_path == input_data.output_path
        loop == input_data.loop
    IN  CASE action = "get_frame_count" ->
                IF input_path = "" THEN BadRequest("Missing input_path", fsys, d, ex)
                ELSE Keep(get_frame_count(fsys, d, input_path), ex)
          [] action = "export_frames" ->
                IF input_path = "" \/ input_data.output_dir = ""
                THEN BadRequest("Missing input_path or output_dir", fsys, d, ex)
                ELSE export_frames(fsys, d, ex, input_path, input_data.output_dir,
                                   IF input_data.output_format = "" THEN "png"
                                   ELSE input_data.output_format,
                                   _build_frame_range_from_request(input_data), fault)
          [] action = "reverse" ->
                IF input_path = "" \/ output_path = ""
                THEN BadRequest("Missing input_path or output_path", fsys, d, ex)
                ELSE Keep(reverse_gif(fsys, d, input_path, output_path, loop, fault), ex)
          [] action = "change_speed" ->
                IF input_path = "" \/ output_path = ""
                THEN BadRequest("Missing input_path or output_path", fsys, d, ex)
                ELSE Keep(change_speed(fsys, d, input_path, output_path,
                                       input_data.speed_factor, loop, fault), ex)
          [] action = "compress" ->
                IF input_path = "" \/ output_path = ""
                THEN BadRequest("Missing input_path or output_path", fsys, d, ex)
                ELSE Keep(compress_gif(fsys, d, input_path, output_path,
                                       InfoGet(input_data.quality, IntV(DefaultQuality)),
                                       loop, fault), ex)
          [] action = "resize" ->
                IF input_path = "" \/ output_path = ""
                THEN BadRequest("Missing input_path or output_path", fsys, d, ex)
                ELSE Keep(resize_gif(fsys, d, input_path, output_path, input_data.width,
                                     input_data.height, input_data.maintain_aspect,
                                     loop, fault), ex)
          [] action = "build_gif" ->
                IF output_path = "" THEN BadRequest("Missing output_path", fsys, d, ex)
                ELSE Keep(build_gif(fsys, d, _coerce_input_paths(input_data), output_path,
                                    input_data.fps, InfoGet(loop, IntV(0)), fault), ex)
          [] action = "convert_animation" ->
                IF input_path = "" \/ output_path = ""
                THEN BadRequest("Missing input_path or output_path", fsys, d, ex)
                ELSE IF input_data.output_format = ""
                THEN BadRequest("Missing output_format", fsys, d, ex)
                ELSE Keep(convert_animation(fsys, d, input_path, output_path,
                                            input_data.output_format,
                                            InfoGet(input_data.quality, IntV(DefaultQuality)),
                                            loop, fault), ex)
          [] OTHER ->
                Keep(Outcome(_error_response("GIF_UNSUPPORTED_ACTION", "Unsupported action"),
                             fsys, d, NoWrite), ex)

\* an entry point without the try/except
ProcessWithoutCatch(input_data, fsys, d, ex, fault) ==
    handle_request(input_data, fsys, d, ex, fault)

\* process: the entry point the worker calls; it turns an exception that
\* leaves handle_request into a response
process(input_data, fsys, d, ex, fault) ==
    LET out == handle_request(input_data, fsys, d, ex, fault)
    IN  IF out.resp.raised
        THEN [out EXCEPT !.resp = _error_response("GIF_INTERNAL_ERROR", "AttributeError")]
        ELSE out

(***************************************************************************)
(* Source files: what the file at PathA may be when the tool starts.  A    *)
(* GIF decode reports integer delays (or none, for a frame without a       *)
(* control block) and the first frame's delay as the container-level one;  *)
(* an APNG decode reports float delays.                                    *)
(***************************************************************************)
FrameNos == 1..MaxFrames

ProfileDuration(profile, i) ==
    CASE profile = "plain" -> IntV(30 + 10 * i)
      [] profile = "zero_first" -> IF i = 1 THEN IntV(0) ELSE IntV(30 + 10 * i)
      [] profile = "no_delay" -> NoneV
      [] OTHER -> IF i = 1 THEN IntV(70) ELSE IntV(0)

\* a GIF frame declares a disposal method of three bits; those above 2 are
\* "restore to previous" (3) and the values the format leaves undefined
ProfileDisposal(profile, i) ==
    CASE profile = "none" -> NoneV
      [] profile = "high" -> IntV(2 * i - 1)
      [] OTHER -> IntV(i)

\* the alpha of a GIF frame is 0 or 255: opaque throughout, or an opaque
\* body with transparent detail, or a transparent body with opaque detail
ProfileAlpha(profile, i) ==
    IF profile = "none" THEN <<255, 255>>
    ELSE IF i % 2 = 1 THEN <<255, 0>> ELSE <<0, 255>>

\* <<delays, disposals>> of the GIF sources
GifProfiles == {<<"plain", "none">>, <<"plain", "mixed">>, <<"zero_first", "mixed">>,
                <<"no_delay", "none">>, <<"zero_later", "none">>, <<"plain", "high">>}

SmallSize == <<20, 10>>
HugeSize == <<12000, 10001>>

GifSource(n, durs, disps, size) ==
    MkFile("GIF",
           [i \in 1..n |-> MkFrame(i, 0, ProfileDuration(durs, i), ProfileDisposal(disps, i),
                                   ProfileAlpha(disps, i), <<>>)],
           ProfileDuration(durs, 1),
           IF disps = "mixed" THEN IntV(3) ELSE NoneV,
           size[1], size[2], <<>>)

\* an APNG or WEBP whose timing chunks hold rawlen durations
ChunkSource(fmt, n, rawlen) ==
    MkFile(fmt,
           [i \in 1..n |-> MkFrame(i, 0,
                                   IF fmt = "PNG" THEN FloatV((30 + 10 * i) * 100)
                                   ELSE IntV(30 + 10 * i),
                                   IntV(i), <<100, 200>>, <<>>)],
           IF fmt = "PNG" THEN FloatV(4000) ELSE NoneV,
           NoneV, SmallSize[1], SmallSize[2],
           [i \in 1..rawlen |-> 31 + 10 * i])

Sources ==
    {GifSource(n, profile[1], profile[2], SmallSize) : n \in FrameNos, profile \in GifProfiles}
    \cup {GifSource(n, "plain", "none", HugeSize) : n \in FrameNos}
    \cup {ChunkSource(fmt, n, n - missing) :
            fmt \in {"PNG", "WEBP"}, n \in FrameNos, missing \in {0, 1}}
    \cup {MkFile("JPEG", <<MkFrame(1, 0, NoneV, NoneV, <<255, 255>>, <<>>)>>, NoneV, NoneV,
                 SmallSize[1], SmallSize[2], <<>>),
          MkFile("TXT", <<>>, NoneV, NoneV, 0, 0, <<>>)}

\* the file that may already be at PathB
OtherFile == MkFile("GIF", <<MkFrame(9, 0, IntV(90), NoneV, <<255, 255>>, <<>>)>>, IntV(90), NoneV, 8, 12, <<>>)

\* the file systems a run may start from: a source at PathA and nothing at
\* PathB, or a plain GIF at PathA and another file at PathB
Disks ==
    {[p \in Paths |-> IF p = PathA THEN src ELSE Absent] : src \in Sources}
    \cup {[p \in Paths |-> IF p = PathA THEN GifSource(n, "plain", "none", SmallSize)
                                        ELSE OtherFile] : n \in FrameNos}

Init ==
    /\ fs \in Disks
    /\ origin = fs
    /\ dirs = {}
    /\ exported = {}
    /\ req = BlankRequest
    /\ pending = FALSE
    /\ resp = BlankResponse
    /\ pre = fs
    /\ wr = NoWrite
    /\ encoder \in Faults
    /\ served = 0
    /\ answered = 0
    /\ walk = NoWalk
    /\ calc = NoCalc

(***************************************************************************)
(* The worker reads one request, hands it to process() and writes the      *)
(* response before it reads the next.  One action per kind of request      *)
(* takes the request; Handle is the call of process() on it.               *)
(***************************************************************************)
Take(r) ==
    /\ req' = r
    /\ pending' = TRUE
    /\ resp' = BlankResponse
    /\ wr' = NoWrite
    /\ pre' = fs
    /\ served' = served + 1
    /\ UNCHANGED <<origin, fs, dirs, exported, encoder, answered, walk, calc>>

\* the worker is idle and takes another request
CanServe == ~pending /\ served < MaxRequests

Handle ==
    /\ pending
    /\ \E out \in {process(req, fs, dirs, exported, encoder)} :
           /\ fs' = out.fs
           /\ dirs' = out.dirs
           /\ exported' = out.exported
           /\ wr' = out.wr
           /\ resp' = out.resp
    /\ pending' = FALSE
    /\ answered' = answered + 1
    /\ UNCHANGED <<origin, req, pre, encoder, served, walk, calc>>

PathPairs == {<<PathA, PathB>>, <<PathA, PathA>>, <<PathB, PathA>>, <<"", PathB>>,
              <<PathA, "">>}

WritePairs == {<<PathA, PathB>>, <<PathA, PathA>>}

Request(action, input_path, output_path) ==
    [BlankRequest EXCEPT !.action = action, !.input_path = input_path,
                         !.output_path = output_path]

Malformed ==
    /\ CanServe
    /\ Take([BlankRequest EXCEPT !.isdict = FALSE])

Unsupported ==
    \E action \in {"unknown_action", " Nonsense "} :
        /\ CanServe
        /\ Take(Request(action, PathA, PathB))

GetFrameCount ==
    \E p \in Paths \cup {""} :
        /\ CanServe
        /\ Take(Request("get_frame_count", p, ""))

\* frame_range values: absent, "all", "1-5", "0-0", "0:2", "1:0", "7", "1"
\* and text that is no range
FrameRanges == {RangeSpec("", 0, 0), RangeSpec("all", 0, 0), RangeSpec("range", 1, 5),
                RangeSpec("range", 0, 0), RangeSpec("step", 0, 2), RangeSpec("step", 1, 0),
                RangeSpec("single", 7, 0), RangeSpec("single", 1, 0), RangeSpec("bad", 0, 0)}

ExportFrames ==
    \E action \in {"export", ""}, io \in {<<PathA, "frames">>, <<PathA, "">>},
       fmt \in {"", "jpg", "bmp"}, range \in FrameRanges :
        /\ CanServe
        /\ Take([Request(action, io[1], "") EXCEPT !.output_dir = io[2],
                                                     !.output_format = fmt,
                                                     !.frame_range = range])

ReverseGif ==
    \E io \in PathPairs,
       how \in {<<"reverse", NoneV>>, <<" Reverse ", NoneV>>, <<"reverse", IntV(2)>>} :
        /\ CanServe
        /\ Take([Request(how[1], io[1], io[2]) EXCEPT !.loop = how[2]])

SpeedFactors == {NoneV, StrV, NanV, IntV(0), IntV(1), IntV(2), FloatV(-50), FloatV(50),
                 FloatV(5), FloatV(250)}

ChangeSpeed ==
    \E io \in WritePairs, factor \in SpeedFactors :
        /\ CanServe
        /\ Take([Request("change_speed", io[1], io[2]) EXCEPT !.speed_factor = factor])

Qualities == {NoneV, StrV, NanV, IntV(999), IntV(42), IntV(0), IntV(-5), FloatV(7550),
              FloatV(50), FloatV(10049)}

CompressGif ==
    \E io \in WritePairs, quality \in Qualities :
        /\ CanServe
        /\ Take([Request("compress_gif", io[1], io[2]) EXCEPT !.quality = quality])

Widths == {NoneV, StrV, IntV(0), IntV(-4), IntV(1), IntV(10), IntV(16), IntV(12000)}
Heights == {NoneV, StrV, IntV(0), IntV(-4), IntV(16), IntV(12000)}

ResizeGif ==
    \E width \in Widths, height \in Heights, keep \in {NoneV, BoolV(FALSE)} :
        /\ CanServe
        /\ Take([Request("resize", PathA, PathB) EXCEPT !.width = width,
                                                        !.height = height,
                                                        !.maintain_aspect = keep])

FpsValues == {NoneV, StrV, NanV, IntV(0), FloatV(-250), IntV(5), IntV(6), FloatV(250),
              IntV(3000)}

BuildGif ==
    \/ \E paths \in {<<>>, <<PathA>>, <<PathA, "", PathB>>},
          fps \in FpsValues :
           /\ CanServe
           /\ Take([Request("build_gif", "", PathB) EXCEPT !.input_paths = paths,
                                                           !.has_input_paths = TRUE,
                                                           !.fps = fps])
    \/ \E io \in {<<PathA, "">>, <<PathA, PathB>>, <<"", PathB>>} :
           /\ CanServe
           /\ Take(Request("build_gif", io[1], io[2]))

ConvertAnimation ==
    \E io \in {<<PathA, PathB>>, <<PathA, PathA>>, <<"", PathB>>, <<PathB, PathA>>},
       fmt \in {"", "gif", "png", "apng", " WebP ", "bmp"} :
        /\ CanServe
        /\ Take([Request("convert", io[1], io[2]) EXCEPT !.output_format = fmt])

Next ==
    \/ Malformed
    \/ Unsupported
    \/ GetFrameCount
    \/ ExportFrames
    \/ ReverseGif
    \/ ChangeSpeed
    \/ CompressGif
    \/ ResizeGif
    \/ BuildGif
    \/ ConvertAnimation
    \/ Handle

Spec == Init /\ [][Next]_vars

(***************************************************************************)
(* Runs of reverse requests only: a file is reversed, then the result is   *)
(* reversed again.                                                         *)
(***************************************************************************)
ReverseAgain ==
    /\ ~pending
    /\ served < MaxReverses
    /\ \E io \in {<<PathA, PathB>>, <<PathB, PathA>>, <<PathB, PathB>>} :
          Take(Request("reverse", io[1], io[2]))

NextReverse == ReverseAgain \/ Handle

SpecReverse == Init /\ [][NextReverse]_vars

(***************************************************************************)
(* Reads of timing chunks.  A buffer is laid out from a shape: a header,   *)
(* a list of chunks and the length it is cut to; a run reads the chunks of *)
(* one buffer for a decode that reports n frames, one pass of the parser's *)
(* loop at a time, and then settles the durations as the reader does.      *)
(***************************************************************************)
MaxChunks == 3

LE32(v) == <<v % 256, (v \div 256) % 256, (v \div 65536) % 256, v \div 16777216>>
LE24(v) == <<v % 256, (v \div 256) % 256, v \div 65536>>
BE32(v) == <<v \div 16777216, (v \div 65536) % 256, (v \div 256) % 256, v % 256>>
BE16(v) == <<v \div 256, v % 256>>
Zeros(k) == [i \in 1..k |-> 0]

\* a declared length that runs past the end of any buffer of the model
HugeLength == 16777232

WebpKinds == {"anmf_0", "anmf_40", "anmf_odd", "anmf_short", "vp8x", "overrun"}
ApngKinds == {"fctl_0_0", "fctl_1_3000", "fctl_161_80", "fctl_short", "idat", "overrun"}

\* an ANMF chunk: the duration is the 24-bit value at payload offset 12
Anmf(size, duration, present) ==
    ANMF \o LE32(size) \o SubSeq(Zeros(12) \o LE24(duration) \o Zeros(3), 1, present)

\* an fcTL chunk: delay_num and delay_den are the 16-bit values at payload
\* offsets 20 and 22; four bytes of CRC follow the payload
Fctl(size, num, den, present) ==
    BE32(size) \o FCTL \o SubSeq(Zeros(20) \o BE16(num) \o BE16(den) \o Zeros(2), 1, present)
    \o Zeros(4)

ChunkBytes(kind) ==
    CASE kind = "anmf_0" -> Anmf(16, 0, 16)
      [] kind = "anmf_40" -> Anmf(16, 40, 16)
      [] kind = "anmf_odd" -> Anmf(17, 70000, 18)
      [] kind = "anmf_short" -> Anmf(6, 0, 6)
      [] kind = "vp8x" -> <<86, 80, 56, 88>> \o LE32(10) \o Zeros(10)
      [] kind = "overrun" -> Anmf(HugeLength, 40, 16)
      [] kind = "fctl_0_0" -> Fctl(26, 0, 0, 26)
      [] kind = "fctl_1_3000" -> Fctl(26, 1, 3000, 26)
      [] kind = "fctl_161_80" -> Fctl(26, 161, 80, 26)
      [] kind = "fctl_short" -> Fctl(8, 5, 100, 8)
      [] kind = "idat" -> BE32(5) \o <<73, 68, 65, 84>> \o Zeros(5) \o Zeros(4)
      [] OTHER -> BE32(HugeLength) \o FCTL \o Zeros(26) \o Zeros(4)

HeaderBytes(header) ==
    CASE header = "riff" -> RIFF \o LE32(4) \o WEBP
      [] header = "rifx" -> <<82, 73, 70, 88>> \o LE32(4) \o WEBP
      [] header = "wave" -> RIFF \o LE32(4) \o <<87, 65, 86, 69>>
      [] header = "png" -> PNG_SIGNATURE
      [] OTHER -> <<137, 80, 78, 71, 13, 10, 26, 13>>

GoodHeader(fmt) == IF fmt = "WEBP" THEN "riff" ELSE "png"
BadHeaders(fmt) == IF fmt = "WEBP" THEN {"rifx", "wave"} ELSE {"pnh"}
Kinds(fmt) == IF fmt = "WEBP" THEN WebpKinds ELSE ApngKinds

\* the bytes of a header and the first k chunks of a list
RECURSIVE Laid(_, _, _, _)
Laid(fmt, header, chunks, k) ==
    IF k = 0 THEN HeaderBytes(header)
    ELSE Laid(fmt, header, chunks, k - 1)
         \o ChunkBytes(IF fmt = "PNG" /\ chunks[k] = "overrun" THEN "overrun_png" ELSE chunks[k])

ChunkLists(fmt) == UNION {[1..m -> Kinds(fmt)] : m \in 0..MaxChunks}

\* the shapes of the model: under a good header every list of chunks, cut
\* anywhere in its last chunk (a cut before it gives the buffer of a shorter
\* list) or, with no chunk, anywhere in the header; under a bad header the
\* lists in full
Shapes(fmt) ==
    UNION {
        {[header |-> GoodHeader(fmt), chunks |-> c, cut |-> k] :
            k \in (IF Len(c) = 0 THEN 0
                   ELSE Len(Laid(fmt, GoodHeader(fmt), c, Len(c) - 1)) + 1)
                  ..Len(Laid(fmt, GoodHeader(fmt), c, Len(c)))}
        \cup {[header |-> h, chunks |-> c, cut |-> Len(Laid(fmt, h, c, Len(c)))] :
                h \in BadHeaders(fmt)}
        : c \in ChunkLists(fmt)}

Buffer(fmt, shape) ==
    SubSeq(Laid(fmt, shape.header, shape.chunks, Len(shape.chunks)), 1, shape.cut)

\* the file the decode reports for the buffer: n frames, and the timing
\* parser's answer for its chunks
Decoded(fmt, n, parsed) == [ChunkSource(fmt, n, 0) EXCEPT !.raw = parsed]

InitWalk ==
    /\ \E fmt \in {"WEBP", "PNG"}, n \in FrameNos :
          /\ fs = [p \in Paths |-> IF p = PathA THEN Decoded(fmt, n, <<>>) ELSE Absent]
          /\ \E shape \in Shapes(fmt) :
                walk = [NoWalk EXCEPT !.pc = "start", !.fmt = fmt, !.shape = shape,
                                      !.data = Buffer(fmt, shape), !.n = n]
    /\ origin = fs
    /\ dirs = {}
    /\ exported = {}
    /\ req = BlankRequest
    /\ pending = FALSE
    /\ resp = BlankResponse
    /\ pre = fs
    /\ wr = NoWrite
    /\ encoder = "none"
    /\ served = 0
    /\ answered = 0
    /\ calc = NoCalc

Others == <<origin, fs, dirs, exported, req, pending, resp, pre, wr, encoder, served, answered>>

\* the parser returns: durations or None
Returned(parsed, raised) ==
    [walk EXCEPT !.pc = "returned", !.parsed = parsed, !.raised = raised]

\* one pass of a parser's loop has ended
Passed(step) ==
    IF step.exit = "raise" THEN [Returned(<<>>, TRUE) EXCEPT !.reads = step.reads]
    ELSE [walk EXCEPT !.pc = IF step.exit = "break" THEN "exit" ELSE "loop",
                      !.offset = step.offset, !.durations = step.durations,
                      !.reads = step.reads]

\* _extract_animation_frames calls _extract_webp_durations, which tests the
\* signature
WebpOpen ==
    /\ walk.pc = "start" /\ walk.fmt = "WEBP" /\ walk.n > 1
    /\ walk' = IF WebpRejected(walk.data) THEN Returned(<<>>, FALSE)
               ELSE [walk EXCEPT !.pc = "loop", !.offset = 12]
    /\ UNCHANGED <<Others, calc>>

WebpChunk ==
    /\ walk.pc = "loop" /\ walk.fmt = "WEBP"
    /\ WebpLoopGuard(walk.offset, Len(walk.data))
    /\ walk' = Passed(WebpStep(walk.data, walk.offset, walk.durations))
    /\ UNCHANGED <<Others, calc>>

\* return durations or None
WebpReturn ==
    /\ walk.fmt = "WEBP"
    /\ \/ walk.pc = "exit"
       \/ walk.pc = "loop" /\ ~WebpLoopGuard(walk.offset, Len(walk.data))
    /\ walk' = Returned(walk.durations, FALSE)
    /\ UNCHANGED <<Others, calc>>

ApngOpen ==
    /\ walk.pc = "start" /\ walk.fmt = "PNG" /\ walk.n > 1
    /\ walk' = IF ApngRejected(walk.data) THEN Returned(<<>>, FALSE)
               ELSE [walk EXCEPT !.pc = "loop", !.offset = 8]
    /\ UNCHANGED <<Others, calc>>

ApngChunk ==
    /\ walk.pc = "loop" /\ walk.fmt = "PNG"
    /\ ApngLoopGuard(walk.offset, Len(walk.data))
    /\ walk' = Passed(ApngStep(walk.data, walk.offset, walk.durations))
    /\ UNCHANGED <<Others, calc>>

ApngReturn ==
    /\ walk.fmt = "PNG"
    /\ \/ walk.pc = "exit"
       \/ walk.pc = "loop" /\ ~ApngLoopGuard(walk.offset, Len(walk.data))
    /\ walk' = Returned(walk.durations, FALSE)
    /\ UNCHANGED <<Others, calc>>

\* _extract_animation_frames settles the durations: the parsed ones when
\* the parser was called and gave as many as there are frames
CorrectTiming ==
    /\ \/ walk.pc = "returned"
       \/ walk.pc = "start" /\ walk.n <= 1
    /\ walk' = [walk EXCEPT !.pc = "settled",
                            !.final = _extract_animation_frames(
                                         Decoded(walk.fmt, walk.n, walk.parsed),
                                         FALSE).durations]
    /\ UNCHANGED <<Others, calc>>

NextWalk ==
    \/ WebpOpen
    \/ WebpChunk
    \/ WebpReturn
    \/ ApngOpen
    \/ ApngChunk
    \/ ApngReturn
    \/ CorrectTiming

SpecWalk == InitWalk /\ [][NextWalk]_vars /\ WF_vars(NextWalk)

(***************************************************************************)
(* Calls of the numeric helpers, one call per run: the palette size of a   *)
(* quality as compress uses it, the milliseconds of an fcTL delay, and the *)
(* size resize settles on for a source and a request.                      *)
(***************************************************************************)
DelayNums == {0, 1, 2, 3, 5, 161, 323, 649, 1000, 65535}
DelayDens == {0, 1, 2, 3, 7, 80, 100, 1000, 2000, 3000, 65535}
SourceSides == {1, 2, 3, 7, 10, 20, 49}
TargetSides == {0, 1, 2, 3, 5, 16, 33}

Call(fn, args) == [fn |-> fn, args |-> args, out |-> <<>>, done |-> FALSE]

Calls ==
    {Call("palette", <<q>>) : q \in MIN_QUALITY..MAX_QUALITY}
    \cup {Call("delay", <<num, den>>) : num \in DelayNums, den \in DelayDens}
    \cup {Call("resize", <<sw, sh, tw, th, keep>>) :
            sw \in SourceSides, sh \in SourceSides, tw \in TargetSides, th \in TargetSides,
            keep \in BOOLEAN}

InitCalc ==
    /\ fs = [p \in Paths |-> IF p = PathA THEN GifSource(1, "plain", "none", SmallSize)
                                          ELSE Absent]
    /\ origin = fs
    /\ dirs = {}
    /\ exported = {}
    /\ req = BlankRequest
    /\ pending = FALSE
    /\ resp = BlankResponse
    /\ pre = fs
    /\ wr = NoWrite
    /\ encoder = "none"
    /\ served = 0
    /\ answered = 0
    /\ walk = NoWalk
    /\ calc \in Calls

Result(out) == [calc EXCEPT !.out = out, !.done = TRUE]

\* compress_gif: the palette size of the quality and the number of colours
\* the quantizer is then run with
PaletteSize ==
    /\ calc.fn = "palette" /\ ~calc.done
    /\ LET palette_size == _quality_to_palette_size(calc.args[1])
       IN  calc' = Result(<<palette_size,
                            _quantize_rgba_frame(fs[PathA].frames[1], palette_size).pal>>)
    /\ UNCHANGED <<Others, walk>>

\* _extract_apng_durations: the duration of one fcTL chunk
ApngDelay ==
    /\ calc.fn = "delay" /\ ~calc.done
    /\ calc' = Result(<<ApngDelayMs(calc.args[1], calc.args[2])>>)
    /\ UNCHANGED <<Others, walk>>

\* resize_gif: the request is refused when it names no side, else the size
\* is resolved
ResolveSize ==
    /\ calc.fn = "resize" /\ ~calc.done
    /\ calc' = IF calc.args[3] <= 0 /\ calc.args[4] <= 0
               THEN Result(<<>>)
               ELSE Result(_resolve_resize_size(calc.args[1], calc.args[2], calc.args[3],
                                                calc.args[4], calc.args[5]))
    /\ UNCHANGED <<Others, walk>>

NextCalc == PaletteSize \/ ApngDelay \/ ResolveSize

SpecCalc == InitCalc /\ [][NextCalc]_vars

(***************************************************************************)
(* Vocabulary of the properties.                                           *)
(***************************************************************************)
\* the last request has been answered
Answered == served > 0 /\ ~pending

\* the answered request was routed to operation a
Routed(a) == Answered /\ req.isdict /\ _normalize_action(req.action) = a

HasPaths == req.input_path # "" /\ req.output_path # ""

\* a file that opens as a GIF
ReadableGif(f) == f.st = "ok" /\ f.fmt = "GIF"

\* the duration of frame i of GIF f: its own delay when that is a positive
\* integer, else the container's (the first frame's delay, 100 when there is none)
SourceDuration(f, i) ==
    LET own == f.frames[i].dur
    IN  IF IsInt(own) /\ own.n > 0 THEN own
        ELSE IF f.defdur.k = "none" THEN IntV(100) ELSE f.defdur

\* the disposal of frame i of f: its own when that is an integer >= 0, else 0
SourceDisposal(f, i) ==
    LET own == f.frames[i].disp
    IN  IF IsInt(own) /\ own.n >= 0 THEN own.n ELSE 0

\* a request value that sets no dimension: absent, non-numeric, zero or negative
Unset(v) == v.k \in {"none", "str", "nan"} \/ (v.k \in {"int", "float"} /\ v.n <= 0)

\* the whole number of pixels a request value asks for, 0 when it sets none
Asked(v) == IF IsInt(v) /\ v.n > 0 THEN v.n ELSE 0

KeepAspect == req.maintain_aspect # BoolV(FALSE)

\* n is p / q rounded to a nearest integer, and 1 where that would be 0
Nearest(n, p, q) ==
    \/ 2 * (n * q - p) <= q /\ 2 * (p - n * q) <= q /\ n >= 1
    \/ n = 1 /\ 2 * p < q

\* frame_count * width * height exceeds the budget
CostExceeds(frame_count, width, height) ==
    frame_count * width > MAX_FRAME_PIXEL_BUDGET \div height

\* a successful write put n frames at the output path
WroteFrames(n) ==
    /\ wr.called
    /\ Len(wr.frames) = n
    /\ fs[req.output_path].st = "ok"
    /\ Len(fs[req.output_path].frames) = n

(***************************************************************************)
(* C1.  Frame count of the GIF-only operations.                            *)
(***************************************************************************)
FrameOps == {"get_frame_count", "reverse", "change_speed", "resize"}

\* the request reached operation a with the paths it needs and an input
\* that opens as one of the formats in fmts
FrameOpOn(a, fmts) ==
    /\ Routed(a)
    /\ req.input_path # ""
    /\ a = "get_frame_count" \/ req.output_path # ""
    /\ pre[req.input_path].st = "ok"
    /\ pre[req.input_path].fmt \in fmts

\* operation a kept the frame count n; a write is expected unless the encoder
\* failed or resize refused the size or the cost
KeptFrameCount(a, n) ==
    IF a = "get_frame_count" THEN resp.success /\ resp.frame_count = n
    ELSE (encoder = "none"
          /\ resp.error_code \notin {"GIF_RESIZE_INVALID_SIZE", "GIF_MEMORY_LIMIT"})
         => resp.success /\ resp.frame_count = n /\ WroteFrames(n)

\* C1 (as amended): for a GIF input with N frames get_frame_count returns N,
\* and reverse, change_speed and resize succeed, report frame_count = N and
\* write N frames; an APNG or WEBP input is refused by all four, and nothing
\* is written.
C1_GifFrameCount ==
    \A a \in FrameOps :
        /\ FrameOpOn(a, {"GIF"}) => KeptFrameCount(a, Len(pre[req.input_path].frames))
        /\ FrameOpOn(a, {"PNG", "WEBP"}) => ~resp.success /\ ~wr.called /\ fs = pre

\* C1 as stated: the same for any animated input, GIF, APNG or WEBP
C1_AnyAnimatedFrameCount ==
    \A a \in FrameOps :
        FrameOpOn(a, {"GIF", "PNG", "WEBP"})
            => KeptFrameCount(a, Len(pre[req.input_path].frames))

\* a two-frame GIF was resized: two frames reported, two frames written
C1_ResizedTwoFrames ==
    /\ FrameOpOn("resize", {"GIF"})
    /\ Len(pre[req.input_path].frames) = 2
    /\ resp.success
    /\ resp.frame_count = 2
    /\ WroteFrames(2)

(***************************************************************************)
(* C2.  Reversing twice.                                                   *)
(***************************************************************************)
\* C2: reverse(reverse(x)) has the frames and the durations of x, position
\* by position.  Stated on a run that reverses PathA into a PathB that did not
\* exist and then reverses PathB: the second output is compared with x.
C2_ReverseTwiceRestores ==
    (/\ Routed("reverse")
     /\ served = 2
     /\ resp.success
     /\ req.input_path = PathB
     /\ origin[PathB].st = "absent"
     /\ ReadableGif(origin[PathA]))
    => LET x == origin[PathA]
           y == fs[req.output_path]
       IN  /\ Len(y.frames) = Len(x.frames)
           /\ \A i \in 1..Len(x.frames) :
                 /\ y.frames[i].px = x.frames[i].px
                 /\ SourceDuration(y, i) = SourceDuration(x, i)

(***************************************************************************)
(* C3.  What reverse carries over.                                         *)
(***************************************************************************)
ReverseDone == Routed("reverse") /\ HasPaths /\ resp.success

SpeedDone == Routed("change_speed") /\ HasPaths /\ resp.success

\* C4: change_speed writes max(1, floor(d / f)) for a frame of source
\* duration d, in the source's frame order: a factor of 1.0 leaves every
\* duration as it is, 2.0 gives max(1, floor(d / 2)), 0.5 gives 2 * d.
C4_SpeedDurations ==
    SpeedDone =>
        LET src == pre[req.input_path]
            n == Len(src.frames)
            d(i) == SourceDuration(src, i).n
        IN  /\ WroteFrames(n)
            /\ \A i \in 1..n :
                  /\ wr.frames[i].px = src.frames[i].px
                  /\ wr.durations[i].n = Max2(1, (d(i) * 100) \div resp.speed_factor)
                  /\ resp.speed_factor = 100 => wr.durations[i].n = d(i)
                  /\ resp.speed_factor = 200 => wr.durations[i].n = Max2(1, d(i) \div 2)
                  /\ resp.speed_factor = 50 => wr.durations[i].n = 2 * d(i)

(***************************************************************************)
(* C5.  The speed factor.                                                  *)
(***************************************************************************)
\* C5: the factor change_speed uses and reports lies in [0.1, 2.0]: 1.0 for
\* a missing, non-numeric, zero or negative value, 0.1 for a positive value
\* below 0.1, 2.0 for a value above 2.0, the value itself otherwise.  (In
\* hundredths.  NaN is a number outside all of these cases: only the range
\* is stated for it.)
C5_SpeedFactorClamped ==
    SpeedDone =>
        LET v == req.speed_factor
            f == resp.speed_factor
            finite == v.k \in {"int", "float"}
            src == pre[req.input_path]
        IN  /\ MIN_SPEED_FACTOR <= f /\ f <= MAX_SPEED_FACTOR
            /\ v.k \in {"none", "str"} => f = 100
            /\ finite /\ Hundredths(v) <= 0 => f = 100
            /\ finite /\ 0 < Hundredths(v) /\ Hundredths(v) < 10 => f = 10
            /\ finite /\ Hundredths(v) > 200 => f = 200
            /\ finite /\ 10 <= Hundredths(v) /\ Hundredths(v) <= 200 => f = Hundredths(v)
            /\ \A i \in 1..Len(wr.durations) :
                  wr.durations[i].n = Max2(1, (SourceDuration(src, i).n * 100) \div f)

\* a request for factor 0.05 was served with 0.1
C5_SlowFactorRaised ==
    /\ SpeedDone
    /\ req.speed_factor = FloatV(5)
    /\ resp.speed_factor = 10
    /\ wr.called

(***************************************************************************)
(* C6.  The size resize writes.                                            *)
(***************************************************************************)
ResizeDone == Routed("resize") /\ HasPaths /\ resp.success

\* C6: with keepAspect and both sides given the source is scaled by
\* min(w / srcW, h / srcH); with one side given the other follows the aspect
\* ratio; without keepAspect the given sides are used and an unset side takes
\* the source's.  A 20x10 source with width 10 gives (10, 5), with width 16
\* and height 16 gives (16, 8).  The reported width and height are the size
\* of the written canvas.
C6_ResizeTargetSize ==
    ResizeDone =>
        LET src == pre[req.input_path]
            w == Asked(req.width)
            h == Asked(req.height)
            W == resp.width
            H == resp.height
        IN  /\ W = wr.w /\ H = wr.h
            /\ W = fs[req.output_path].w /\ H = fs[req.output_path].h
            /\ resp.original_width = src.w /\ resp.original_height = src.h
            /\ KeepAspect /\ w > 0 /\ h > 0 /\ w * src.h <= h * src.w
                  => W = w /\ Nearest(H, src.h * w, src.w)
            /\ KeepAspect /\ w > 0 /\ h > 0 /\ w * src.h >= h * src.w
                  => H = h /\ Nearest(W, src.w * h, src.h)
            /\ KeepAspect /\ w > 0 /\ h = 0 => W = w /\ Nearest(H, src.h * w, src.w)
            /\ KeepAspect /\ w = 0 /\ h > 0 => H = h /\ Nearest(W, src.w * h, src.h)
            /\ ~KeepAspect => /\ W = (IF w > 0 THEN w ELSE src.w)
                              /\ H = (IF h > 0 THEN h ELSE src.h)
            /\ KeepAspect /\ src.w = 20 /\ src.h = 10 /\ w = 10 /\ h = 0 => W = 10 /\ H = 5
            /\ KeepAspect /\ src.w = 20 /\ src.h = 10 /\ w = 16 /\ h = 16 => W = 16 /\ H = 8

\* a 20x10 GIF was fitted into 16x16 and written as 16x8
C6_FittedIntoBox ==
    /\ ResizeDone
    /\ KeepAspect
    /\ pre[req.input_path].w = 20 /\ pre[req.input_path].h = 10
    /\ Asked(req.width) = 16 /\ Asked(req.height) = 16
    /\ fs[req.output_path].w = 16 /\ fs[req.output_path].h = 8

(***************************************************************************)
(* C7.  resize without a size.                                             *)
(***************************************************************************)
ResizeWithoutSize == Routed("resize") /\ HasPaths /\ Unset(req.width) /\ Unset(req.height)

\* C7 (as amended): a resize request that sets neither width nor height
\* (absent, non-numeric, zero or negative) fails and writes nothing; its
\* error code is GIF_RESIZE_INVALID_SIZE when the input opens as a GIF, and
\* the code of the input's fault when it does not.
C7_ResizeNeedsSize ==
    ResizeWithoutSize =>
        LET src == pre[req.input_path]
        IN  /\ ~resp.success
            /\ ~wr.called
            /\ fs = pre
            /\ resp.error_code =
                  (CASE src.st = "absent" -> "GIF_INPUT_NOT_FOUND"
                     [] src.st = "partial" \/ src.fmt = "TXT" -> "GIF_UNSUPPORTED_IMAGE"
                     [] src.fmt # "GIF" -> "GIF_RESIZE_FAILED"
                     [] OTHER -> "GIF_RESIZE_INVALID_SIZE")

\* C7 as stated: the failure carries the code INVALID_SIZE
C7_InvalidSizeCode ==
    ResizeWithoutSize => ~resp.success /\ ~wr.called /\ fs = pre /\ resp.error_code = "INVALID_SIZE"

\* a GIF was to be resized to a non-numeric width and a negative height
C7_RefusedWithoutSize ==
    /\ ResizeWithoutSize
    /\ req.width = StrV /\ req.height = IntV(-4)
    /\ ReadableGif(pre[req.input_path])
    /\ resp.error_code = "GIF_RESIZE_INVALID_SIZE"
    /\ fs = pre

(***************************************************************************)
(* C8.  The frame-pixel budget.                                            *)
(***************************************************************************)
\* a compress request on a GIF whose frames cost more than the budget, or a
\* resize request with a size whose frames, at the larger of source and target
\* side, do
OverBudgetRequest ==
    /\ Routed("compress") \/ Routed("resize")
    /\ HasPaths
    /\ ReadableGif(pre[req.input_path])
    /\ LET src == pre[req.input_path]
           n == Len(src.frames)
           target == _resolve_resize_size(src.w, src.h, Asked(req.width), Asked(req.height),
                                          KeepAspect)
       IN  IF Routed("compress") THEN CostExceeds(n, src.w, src.h)
           ELSE /\ ~(Unset(req.width) /\ Unset(req.height))
                /\ CostExceeds(n, Max2(src.w, target[1]), Max2(src.h, target[2]))

\* C8 (as amended): a compress or resize request on a GIF whose frame-pixel
\* cost exceeds 120,000,000 fails with GIF_MEMORY_LIMIT, success = false, and
\* no file is created or changed.
C8_BudgetRejects ==
    OverBudgetRequest =>
        /\ ~resp.success
        /\ resp.error_code = "GIF_MEMORY_LIMIT"
        /\ ~wr.called
        /\ fs = pre

\* C8 as stated: the failure carries the code MEMORY_LIMIT
C8_MemoryLimitCode ==
    OverBudgetRequest =>
        /\ ~resp.success
        /\ resp.error_code = "MEMORY_LIMIT"
        /\ ~wr.called
        /\ fs = pre

\* two frames were to be resized to 12000 wide over an existing output: each
\* frame alone fits the budget, the two together do not, and the output stays
C8_RefusedOverBudget ==
    /\ OverBudgetRequest
    /\ Routed("resize")
    /\ Len(pre[req.input_path].frames) = 2
    /\ ~CostExceeds(1, 12000, 6000)
    /\ Asked(req.width) = 12000 /\ Asked(req.height) = 0 /\ KeepAspect
    /\ pre[req.output_path].st = "ok"
    /\ fs = pre
    /\ resp.error_code = "GIF_MEMORY_LIMIT"

(***************************************************************************)
(* C9.  Failed writes.                                                     *)
(***************************************************************************)
WritingOps == {"reverse", "change_speed", "compress", "resize", "build_gif",
               "convert_animation"}

\* C9: when a writing operation fails, the file at output_path is absent or
\* the file that was there before the request, also when output_path is the
\* input path.
C9_FailedWriteLeavesOutput ==
    \A a \in WritingOps :
        (Routed(a) /\ req.output_path # "" /\ ~resp.success)
            => \/ fs[req.output_path].st = "absent"
               \/ fs[req.output_path] = pre[req.output_path]

(***************************************************************************)
(* C10.  One response per request.                                         *)
(***************************************************************************)
\* C10: every request taken gets one response, no exception leaves process;
\* the response has a success field, and an error and an error_code when
\* success is false.
C10_OneResponsePerRequest ==
    /\ answered = (IF pending THEN served - 1 ELSE served)
    /\ Answered =>
          /\ ~resp.raised
          /\ resp.success \in BOOLEAN
          /\ ~resp.success => resp.error # "" /\ resp.error_code # ""

\* a request that is no JSON object was answered with an error response
C10_MalformedAnswered ==
    /\ Answered
    /\ ~req.isdict
    /\ answered = served
    /\ ~resp.success
    /\ resp.error_code = "GIF_INTERNAL_ERROR"

(***************************************************************************)
(* C11.  Action routing.                                                   *)
(***************************************************************************)
Operations == {"get_frame_count", "export_frames", "reverse", "change_speed", "compress",
               "resize", "build_gif", "convert_animation"}

\* the operation the synonym table names for an action string once it is
\* trimmed and lower-cased; "" when the table does not hold it
SynonymOf(text) ==
    CASE text \in {"", "export"} -> "export_frames"
      [] text \in {"reverse", " Reverse "} -> "reverse"
      [] text = "change_speed" -> "change_speed"
      [] text = "compress_gif" -> "compress"
      [] text = "resize" -> "resize"
      [] text = "build_gif" -> "build_gif"
      [] text = "convert" -> "convert_animation"
      [] text = "get_frame_count" -> "get_frame_count"
      [] OTHER -> ""

\* the error codes operation op answers with
ErrorCodes(op) ==
    {"GIF_BAD_REQUEST"} \cup
    CASE op = "get_frame_count" -> {"GIF_GET_FRAME_COUNT_FAILED"}
      [] op = "export_frames" -> {"GIF_EXPORT_UNSUPPORTED_FORMAT", "GIF_EXPORT_EMPTY_SELECTION",
                                  "GIF_EXPORT_FAILED", "GIF_INPUT_NOT_FOUND",
                                  "GIF_UNSUPPORTED_IMAGE"}
      [] op = "reverse" -> {"GIF_REVERSE_FAILED", "GIF_INPUT_NOT_FOUND", "GIF_UNSUPPORTED_IMAGE"}
      [] op = "change_speed" -> {"GIF_SPEED_CHANGE_FAILED", "GIF_INPUT_NOT_FOUND",
                                 "GIF_UNSUPPORTED_IMAGE"}
      [] op = "compress" -> {"GIF_COMPRESS_FAILED", "GIF_MEMORY_LIMIT", "GIF_INPUT_NOT_FOUND",
                             "GIF_UNSUPPORTED_IMAGE"}
      [] op = "resize" -> {"GIF_RESIZE_FAILED", "GIF_RESIZE_INVALID_SIZE", "GIF_MEMORY_LIMIT",
                           "GIF_INPUT_NOT_FOUND", "GIF_UNSUPPORTED_IMAGE"}
      [] op = "build_gif" -> {"GIF_BUILD_FAILED", "GIF_BUILD_NO_INPUT", "GIF_INPUT_NOT_FOUND",
                              "GIF_UNSUPPORTED_IMAGE"}
      [] OTHER -> {"ANIMATED_CONVERT_BAD_INPUT", "ANIMATED_CONVERT_FAILED",
                   "GIF_INPUT_NOT_FOUND", "GIF_UNSUPPORTED_IMAGE"}

\* response r is one that operation op gives: its result fields on success,
\* one of its error codes on failure
AnswerOf(op, r) ==
    IF ~r.success THEN r.error_code \in ErrorCodes(op)
    ELSE /\ r.frame_count >= 0
         /\ (r.export_count >= 0) = (op = "export_frames")
         /\ (r.speed_factor >= 0) = (op = "change_speed")
         /\ (r.quality >= 0) = (op = "compress")
         /\ (r.width >= 0) = (op = "resize")
         /\ (r.fps >= 0) = (op = "build_gif")
         /\ (r.output_format # "") = (op = "convert_animation")

\* the step that answers the pending request leaves every file and
\* directory as it is and hands nothing to a writer
TouchesNothing == ~wr'.called /\ UNCHANGED <<fs, dirs, exported>>

\* the router rejects the pending request with this code and touches nothing
RejectedWith(codes) ==
    /\ ~resp'.success
    /\ resp'.error_code \in codes
    /\ TouchesNothing

\* C11 (as amended): an action string, trimmed and lower-cased, either is in
\* the synonym table and the request is answered by the one operation the
\* table names for it, or is not and the request is answered with
\* success=false and error code GIF_UNSUPPORTED_ACTION, no operation run and
\* no file, directory or writer touched.
C11_ActionRouting ==
    [][(pending /\ req.isdict) =>
          IF SynonymOf(req.action) # ""
          THEN SynonymOf(req.action) \in Operations
               /\ AnswerOf(SynonymOf(req.action), resp')
          ELSE RejectedWith({"GIF_UNSUPPORTED_ACTION"})]_vars

\* C11 as stated: the code of the rejection is UNSUPPORTED_ACTION
C11_UnsupportedActionCode ==
    [][(pending /\ req.isdict) =>
          IF SynonymOf(req.action) # ""
          THEN SynonymOf(req.action) \in Operations
               /\ AnswerOf(SynonymOf(req.action), resp')
          ELSE RejectedWith({"UNSUPPORTED_ACTION"})]_vars

\* an action outside the table was rejected, and one written " Reverse "
\* would have been routed to reverse
C11_RejectedUnknownAction ==
    /\ Answered
    /\ req.action = " Nonsense "
    /\ resp.error_code = "GIF_UNSUPPORTED_ACTION"
    /\ fs = pre
    /\ _normalize_action(" Reverse ") = "reverse"

(***************************************************************************)
(* C12.  Required fields.                                                  *)
(***************************************************************************)
\* the request lacks a field that handle_request tests before it calls op
LacksTested(r, op) ==
    CASE op = "get_frame_count" -> r.input_path = ""
      [] op = "export_frames" -> r.input_path = "" \/ r.output_dir = ""
      [] op = "build_gif" -> r.output_path = ""
      [] op = "convert_animation" ->
            r.input_path = "" \/ r.output_path = "" \/ r.output_format = ""
      [] OTHER -> r.input_path = "" \/ r.output_path = ""

\* the request lacks a field the interface table lists as required for op
LacksListed(r, op) ==
    CASE op = "get_frame_count" -> r.input_path = ""
      [] op = "export_frames" ->
            r.input_path = "" \/ r.output_dir = "" \/ r.output_format = ""
            \/ (r.frame_range.kind = "" /\ r.start_frame.k = "none" /\ r.end_frame.k = "none")
      [] op = "change_speed" ->
            r.input_path = "" \/ r.output_path = "" \/ r.speed_factor.k = "none"
      [] op = "build_gif" -> r.output_path = "" \/ ~r.has_input_paths
      [] op = "convert_animation" ->
            r.input_path = "" \/ r.output_path = "" \/ r.output_format = ""
      [] OTHER -> r.input_path = "" \/ r.output_path = ""

\* C12 (as amended): a request without input_path or output_path (output_dir
\* for export_frames; input_path alone for get_frame_count; output_path alone
\* for build_gif), or without output_format for convert_animation, is rejected
\* with GIF_BAD_REQUEST and no file is written, no directory created and no
\* writer called.  The other listed fields are optional: a request without
\* speed_factor, output_format of export_frames, frame_range or input_paths
\* is not rejected for it.
C12_TestedFieldsRejected ==
    [][(pending /\ req.isdict /\ _normalize_action(req.action) \in Operations) =>
          /\ LacksTested(req, _normalize_action(req.action))
                => RejectedWith({"GIF_BAD_REQUEST"})
          /\ ~LacksTested(req, _normalize_action(req.action))
                => resp'.error_code # "GIF_BAD_REQUEST"]_vars

\* C12 as stated: a request that lacks any field listed as required is
\* rejected with the bad-request code before anything is touched
C12_ListedFieldsRejected ==
    [][(pending /\ req.isdict /\ _normalize_action(req.action) \in Operations
        /\ LacksListed(req, _normalize_action(req.action)))
          => RejectedWith({"BAD_REQUEST", "GIF_BAD_REQUEST"})]_vars

\* a convert_animation request without output_format was rejected although
\* its input exists, and nothing was written
C12_RejectedWithoutFormat ==
    /\ Routed("convert_animation")
    /\ HasPaths
    /\ req.output_format = ""
    /\ resp.error_code = "GIF_BAD_REQUEST"
    /\ pre[req.input_path].st = "ok"
    /\ fs = pre
    /\ ~wr.called

(***************************************************************************)
(* C13, C14.  export_frames.                                               *)
(***************************************************************************)
\* the indices a frame_range denotes for a source of n frames
Denoted(range, n) ==
    CASE range.kind = "range" -> range.a .. range.b
      [] range.kind = "step" /\ range.b > 0 ->
            {i \in range.a .. (n - 1) : (i - range.a) % range.b = 0}
      [] range.kind = "single" -> {range.a}
      [] OTHER -> 0 .. (n - 1)

\* the pending request is an export_frames request that names its input and
\* its output directory and asks for a frame format the tool writes
ExportAsked ==
    /\ pending
    /\ req.isdict
    /\ _normalize_action(req.action) = "export_frames"
    /\ req.input_path # ""
    /\ req.output_dir # ""
    /\ req.output_format \in {"", "png", "bmp"}

\* a file that opens as one of the animated containers
AnimatedContainer(f) == f.st = "ok" /\ f.fmt \in {"GIF", "PNG", "WEBP"}

\* the frame indices of a list of frame paths strictly increase
Increasing(paths) == \A k \in 1..(Len(paths) - 1) : paths[k].idx < paths[k + 1].idx

\* the frame files the answering step created
NewFiles == exported' \ exported

\* the answering step reported success with exactly the indices in want:
\* one file per index, in increasing order, each on disk and complete
ExportedExactly(want) ==
    /\ resp'.success
    /\ {resp'.frame_paths[k].idx : k \in 1..Len(resp'.frame_paths)} = want
    /\ Len(resp'.frame_paths) = Cardinality(want)
    /\ resp'.export_count = Cardinality(want)
    /\ Increasing(resp'.frame_paths)
    /\ \A k \in 1..Len(resp'.frame_paths) :
          [path |-> resp'.frame_paths[k], st |-> "ok"] \in exported'
    /\ \A e \in NewFiles : \E k \in 1..Len(resp'.frame_paths) : e.path = resp'.frame_paths[k]

\* C13 (as amended): for an animated source of N >= 2 frames, export_frames,
\* unless the encoder fails, exports exactly the indices its frame_range
\* denotes that lie in [0, N) ("all" or none: 0..N-1; "start-end": start..end;
\* "start:step": start, start+step, ...; "<K>": K; text that cannot be parsed
\* or a zero step: all), and fails with GIF_EXPORT_EMPTY_SELECTION, writing
\* nothing, when no such index is left; a source of one frame is refused and
\* nothing is exported.  No file is ever exported for an index outside [0, N).
C13_ExportedIndices ==
    [][ExportAsked =>
          LET src == fs[req.input_path]
              n == Len(src.frames)
              want == Denoted(req.frame_range, n) \cap (0 .. (n - 1))
          IN  /\ \A e \in NewFiles : e.path.idx \in 0 .. (n - 1)
              /\ resp'.success => ExportedExactly(want)
              /\ (AnimatedContainer(src) /\ encoder = "none") =>
                    IF n <= 1
                    THEN ~resp'.success /\ NewFiles = {}
                         /\ resp'.error_code = "GIF_EXPORT_FAILED"
                    ELSE IF want = {}
                    THEN ~resp'.success /\ NewFiles = {}
                         /\ resp'.error_code = "GIF_EXPORT_EMPTY_SELECTION"
                    ELSE ExportedExactly(want)]_vars

\* C13 as stated: for a source of N frames, of any N, the exported indices
\* are those the frame_range denotes within [0, N)
C13_AnySourceExported ==
    [][(ExportAsked /\ AnimatedContainer(fs[req.input_path]) /\ encoder = "none") =>
          LET n == Len(fs[req.input_path].frames)
              want == Denoted(req.frame_range, n) \cap (0 .. (n - 1))
          IN  /\ {e.path.idx : e \in NewFiles} = want
              /\ \A e \in NewFiles : e.path.idx \in 0 .. (n - 1)]_vars

\* "0-0" on a two-frame source exported index 0 alone
C13_ExportedFirstOfTwo ==
    /\ Routed("export_frames")
    /\ req.frame_range = RangeSpec("range", 0, 0)
    /\ Len(pre[req.input_path].frames) = 2
    /\ resp.success
    /\ resp.export_count = 1
    /\ {e.path.idx : e \in exported} = {0}

\* a frame path is named <stem>_frame_<four digits of idx>.<ext> in dir
NamedFor(path, dir, stem, idx, ext) ==
    /\ path.dir = dir
    /\ path.stem = stem
    /\ path.ext = ext
    /\ path.idx = idx
    /\ Len(path.digits) = 4
    /\ 1000 * path.digits[1] + 100 * path.digits[2] + 10 * path.digits[3] + path.digits[4] = idx

\* the extension a request asks for: png when it names none
RequestedExtension == IF req.output_format = "" THEN "png" ELSE req.output_format

\* the answering step wrote one file per frame of an n-frame source
AllFramesExported(n) ==
    /\ resp'.success
    /\ resp'.frame_count = n
    /\ resp'.export_count = n
    /\ Len(resp'.frame_paths) = n
    /\ \A k \in 1..n :
          /\ NamedFor(resp'.frame_paths[k], req.output_dir, Stem(req.input_path), k - 1,
                      RequestedExtension)
          /\ [path |-> resp'.frame_paths[k], st |-> "ok"] \in exported'
    /\ \A j, k \in 1..n : j # k => resp'.frame_paths[j] # resp'.frame_paths[k]
    /\ Cardinality({e \in exported' : e.path.dir = req.output_dir
                                     /\ e.path.ext = RequestedExtension
                                     /\ e.path.stem = Stem(req.input_path)
                                     /\ e.path.idx < n /\ e.st = "ok"}) = n

\* C14 (as amended): export_frames with frame_range "all" on an animated
\* source of N >= 2 frames, unless the encoder fails, writes exactly N files
\* with pairwise distinct paths, one per frame index 0..N-1, each named
\* <input stem>_frame_<index zero-padded to 4 digits>.<requested extension>,
\* and reports frame_count = N, export_count = N and frame_paths of length N
\* in increasing index order; on a source of one frame it fails and writes
\* no file.
C14_AllFramesExported ==
    [][(ExportAsked /\ req.frame_range.kind \in {"", "all"}
        /\ AnimatedContainer(fs[req.input_path]) /\ encoder = "none") =>
          LET n == Len(fs[req.input_path].frames)
          IN  IF n >= 2 THEN AllFramesExported(n) /\ Increasing(resp'.frame_paths)
              ELSE ~resp'.success /\ NewFiles = {}]_vars

\* C14 as stated: the same of a source of N frames, of any N
C14_AnySourceAllFrames ==
    [][(ExportAsked /\ req.frame_range.kind \in {"", "all"}
        /\ AnimatedContainer(fs[req.input_path]) /\ encoder = "none") =>
          LET n == Len(fs[req.input_path].frames)
          IN  AllFramesExported(n) /\ Increasing(resp'.frame_paths)]_vars

\* "all" on a two-frame source wrote a_frame_0000.bmp and a_frame_0001.bmp
C14_ExportedTwoBmp ==
    /\ Routed("export_frames")
    /\ req.frame_range = RangeSpec("all", 0, 0)
    /\ req.output_format = "bmp"
    /\ resp.success
    /\ resp.export_count = 2
    /\ resp.frame_paths[2].digits = <<0, 0, 0, 1>>
    /\ resp.frame_paths[2].ext = "bmp"
    /\ Cardinality(exported) = 2

(***************************************************************************)
(* C15.  Transparency through the quantizer.                               *)
(***************************************************************************)
QuantizeDone == (Routed("compress") \/ Routed("resize")) /\ HasPaths /\ resp.success

\* every pixel of the answered request's frames that has alpha <= 127 in
\* before[i] was handed to the writer with index 255, 255 being the
\* transparency index, and the written file decodes it with alpha 0
TransparentWherever(before) ==
    /\ wr.transparency = 255
    /\ \A i \in 1..Len(wr.frames) : \A p \in 1..Len(before[i]) :
          before[i][p] <= 127 =>
             /\ wr.frames[i].index[p] = 255
             /\ fs[req.output_path].frames[i].alpha[p] = 0

\* C15 (as amended): after compress or resize, every pixel that has alpha
\* <= 127 in the frame handed to the quantizer (the source frame for
\* compress, the resampled frame for resize) is written with the
\* transparency index 255 and decodes with alpha 0, in every frame of the
\* output.
C15_MaskedPixelsTransparent ==
    QuantizeDone =>
       LET src == pre[req.input_path]
       IN  /\ Len(wr.frames) = Len(src.frames)
           /\ TransparentWherever(
                 [i \in 1..Len(src.frames) |->
                     IF Routed("compress") THEN src.frames[i].alpha
                     ELSE Resized(src.frames[i], <<src.w, src.h>>,
                                  <<resp.width, resp.height>>).alpha])

\* C15 as stated: every pixel whose alpha in the source file is <= 127
C15_SourcePixelsTransparent ==
    QuantizeDone =>
       LET src == pre[req.input_path]
       IN  /\ Len(wr.frames) = Len(src.frames)
           /\ TransparentWherever([i \in 1..Len(src.frames) |-> src.frames[i].alpha])

\* a resize to another size wrote a frame with a transparent pixel
C15_ResizedWithTransparency ==
    /\ Routed("resize")
    /\ HasPaths
    /\ resp.success
    /\ resp.width # resp.original_width
    /\ \E i \in 1..Len(wr.frames) : \E p \in 1..2 :
          /\ wr.frames[i].index[p] = 255
          /\ pre[req.input_path].frames[i].alpha[p] = 0
          /\ fs[req.output_path].frames[i].alpha[p] = 0

(***************************************************************************)
(* C16.  build_gif timing.                                                 *)
(***************************************************************************)
\* the frame rate, in hundredths, that a request value stands for: the value
\* when it is a positive number, 10 when it is missing, non-numeric, zero or
\* negative
FpsOf(v) == IF v.k \in {"int", "float"} /\ v.n > 0 THEN Hundredths(v) ELSE DEFAULT_FPS * 100

BuildAsked == Routed("build_gif") /\ req.output_path # ""

\* the answered build_gif request handed the writer one frame per still,
\* each with duration ms, and reported the frame rate it used
BuiltWith(ms) ==
    /\ wr.called
    /\ Len(wr.frames) = Len(_coerce_input_paths(req))
    /\ Len(wr.durations) = Len(wr.frames)
    /\ \A i \in 1..Len(wr.durations) : wr.durations[i] = IntV(ms)
    /\ resp.fps = FpsOf(req.fps)
    /\ resp.frame_count = Len(wr.frames)

\* C16 (as amended): build_gif assigns every frame the same duration
\* max(1, floor(1000 / fps)) milliseconds, where fps is the requested value
\* if it is a positive number and 10 if it is missing, non-numeric, zero or
\* negative; two stills at fps=5 give two frames of 200 ms each, and the
\* reported fps is the sanitized value.  With fps NaN build_gif fails with
\* GIF_BUILD_FAILED and writes nothing.
C16_BuildDurationFloor ==
    BuildAsked =>
       /\ resp.success => BuiltWith(Max2(1, (1000 * 100) \div FpsOf(req.fps)))
       /\ (resp.success /\ req.fps = IntV(5) /\ Len(wr.frames) = 2) =>
             wr.durations = <<IntV(200), IntV(200)>>
       /\ (req.fps.k = "nan" /\ Len(_coerce_input_paths(req)) > 0) =>
             ~resp.success /\ resp.error_code = "GIF_BUILD_FAILED" /\ fs = pre /\ ~wr.called
       /\ (req.fps.k # "nan" /\ encoder = "none" /\ Len(_coerce_input_paths(req)) > 0
           /\ \A i \in 1..Len(_coerce_input_paths(req)) :
                 OpenImage(pre[_coerce_input_paths(req)[i]]) = "ok")
             => resp.success

\* C16 as stated: the duration is round(1000 / fps)
C16_BuildDurationRound ==
    (BuildAsked /\ resp.success) => BuiltWith(RoundDiv(1000 * 100, FpsOf(req.fps)))

\* two stills at fps=5 gave two frames of 200 ms
C16_TwoStillsAtFive ==
    /\ BuildAsked
    /\ resp.success
    /\ req.fps = IntV(5)
    /\ resp.fps = 500
    /\ wr.durations = <<IntV(200), IntV(200)>>
    /\ Len(fs[req.output_path].frames) = 2

(***************************************************************************)
(* C17.  compress quality.                                                 *)
(***************************************************************************)
CompressDone == Routed("compress") /\ HasPaths /\ resp.success

\* q is what quality value v stands for: 90 when v is missing or
\* non-numeric; for a number, an integer nearest to it, brought into [1, 100]
QualityFor(v, q) ==
    IF v.k \in {"none", "str"} THEN q = 90
    ELSE IF v.k \in {"int", "float"}
    THEN \E r \in {Hundredths(v) \div 100, Hundredths(v) \div 100 + 1} :
            /\ 2 * (100 * r - Hundredths(v)) <= 100
            /\ 2 * (Hundredths(v) - 100 * r) <= 100
            /\ q = Max2(1, Min2(100, r))
    ELSE TRUE

\* C17: the quality compress uses and reports is an integer in [1, 100]: a
\* number is rounded and clamped into [1, 100] (999 becomes 100), a missing
\* quality is 90, and a non-numeric quality is 90.  The palette the frames
\* are written with is the one of the reported quality.
C17_QualityInRange ==
    CompressDone =>
       /\ resp.quality \in 1..100
       /\ QualityFor(req.quality, resp.quality)
       /\ req.quality = IntV(999) => resp.quality = 100
       /\ \A i \in 1..Len(wr.frames) :
             wr.frames[i].pal = Max2(16, Min2(255, RoundDiv(resp.quality * 255, 100)))

\* a compress with quality 999 reported quality 100
C17_ClampedToHundred ==
    /\ CompressDone
    /\ req.quality = IntV(999)
    /\ resp.quality = 100
    /\ wr.frames[1].pal = 255

(***************************************************************************)
(* C18.  Durations handed to a writer.                                     *)
(***************************************************************************)
\* C18: in every animation handed to a writer, every frame duration is an
\* integer >= 1 ms, whatever the source declares.
C18_WrittenDurationsPositive ==
    wr.called =>
       \A i \in 1..Len(wr.durations) : IsInt(wr.durations[i]) /\ wr.durations[i].n >= 1

(***************************************************************************)
(* C19.  Lengths of the frame, duration and disposal lists.                *)
(***************************************************************************)
\* the lists of one animation agree in length; disposals may be missing
\* altogether when has_disposals is FALSE
SameLengths(frames, durations, has_disposals, disposals) ==
    /\ Len(durations) = Len(frames)
    /\ has_disposals => Len(disposals) = Len(frames)

\* what the readers return for file f agrees in length
ReadsSameLengths(f) ==
    /\ f.fmt = "GIF" =>
          /\ SameLengths(_extract_gif_frames(f).frames, _extract_gif_frames(f).durations,
                         FALSE, <<>>)
          /\ SameLengths(_extract_gif_frames_with_disposal(f).frames,
                         _extract_gif_frames_with_disposal(f).durations,
                         TRUE, _extract_gif_frames_with_disposal(f).disposals)
    /\ f.fmt \in {"GIF", "PNG", "WEBP"} =>
          SameLengths(_extract_animation_frames(f, FALSE).frames,
                      _extract_animation_frames(f, FALSE).durations,
                      TRUE, _extract_animation_frames(f, FALSE).disposals)

\* C19 (as amended): wherever an animation is read or handed to a writer,
\* the frame list and the duration list have the same length, and so has the
\* disposal list wherever there is one (the reads of compress, resize,
\* convert_animation and export_frames; the writes of compress, resize and of
\* convert_animation to GIF or APNG), also after the WEBP/APNG timing
\* correction has been applied or rejected.  reverse, change_speed and
\* build_gif read and hand over no disposal list, nor does a WEBP write.
C19_ListsSameLength ==
    /\ wr.called =>
          /\ SameLengths(wr.frames, wr.durations, wr.hasDisposal, wr.disposals)
          /\ wr.hasDisposal = (\/ Routed("compress")
                               \/ Routed("resize")
                               \/ Routed("convert_animation") /\ wr.fmt \in {"GIF", "PNG"})
    /\ \A p \in Paths : fs[p].st = "ok" => ReadsSameLengths(fs[p])

\* C19 as stated: every animation handed to a writer has a disposal list as
\* long as its frame list
C19_DisposalListEverywhere ==
    wr.called =>
       /\ Len(wr.durations) = Len(wr.frames)
       /\ Len(wr.disposals) = Len(wr.frames)

\* an APNG whose timing chunks are one short was converted: the correction
\* was rejected and the three lists handed to the writer have two entries
C19_ConvertedAfterRejectedTiming ==
    /\ Routed("convert_animation")
    /\ resp.success
    /\ wr.hasDisposal
    /\ pre[req.input_path].fmt = "PNG"
    /\ Len(pre[req.input_path].raw) = 1
    /\ Len(wr.frames) = 2
    /\ Len(wr.durations) = 2
    /\ Len(wr.disposals) = 2

(***************************************************************************)
(* C20.  WEBP / APNG timing correction.                                    *)
(***************************************************************************)
\* the duration the decode gives frame i of f: its own when that is a
\* positive integer, else the container's when that is one, else 100
DecodedDuration(f, i) ==
    IF IsInt(f.frames[i].dur) /\ f.frames[i].dur.n > 0 THEN f.frames[i].dur
    ELSE IF IsInt(f.defdur) /\ f.defdur.n > 0 THEN f.defdur
    ELSE IntV(100)

\* a convert_animation request read a WEBP or APNG source and went on to write
ChunkSourceRead ==
    /\ Routed("convert_animation")
    /\ wr.called
    /\ pre[req.input_path].fmt \in {"WEBP", "PNG"}

\* C20: when a WEBP or APNG source is read, the durations parsed from its
\* chunks replace the decoded ones if and only if there are as many as
\* decoded frames; when there are none or another number, the decoded
\* durations are kept and the read succeeds.
C20_TimingReplacedOnEqualLength ==
    /\ ChunkSourceRead =>
          LET src == pre[req.input_path]
              n == Len(src.frames)
          IN  /\ Len(wr.durations) = n
              /\ \A i \in 1..n :
                    wr.durations[i] = IF Len(src.raw) = n THEN IntV(src.raw[i])
                                      ELSE DecodedDuration(src, i)
    /\ (Routed("convert_animation") /\ HasPaths /\ encoder = "none"
        /\ req.output_format \in {"gif", "png", " WebP "}
        /\ AnimatedContainer(pre[req.input_path])
        /\ Len(pre[req.input_path].frames) >= 2) => resp.success

\* a WEBP whose chunks hold one duration for two frames was converted with
\* the decoded durations
C20_KeptDecodedDurations ==
    /\ ChunkSourceRead
    /\ resp.success
    /\ pre[req.input_path].fmt = "WEBP"
    /\ Len(pre[req.input_path].raw) = 1
    /\ wr.durations = <<IntV(40), IntV(50)>>

(***************************************************************************)
(* C21.  Malformed and short buffers.                                      *)
(***************************************************************************)
\* the buffer of a shape is malformed or short: its signature is wrong, it
\* is cut inside its header or inside a chunk, or a chunk declares a length
\* that runs past its end
MalformedBuffer(fmt, shape) ==
    \/ shape.header # GoodHeader(fmt)
    \/ shape.cut < Len(Laid(fmt, shape.header, shape.chunks, Len(shape.chunks)))
    \/ \E i \in 1..Len(shape.chunks) : shape.chunks[i] = "overrun"

\* the parser has returned to the reader
ParserReturned == walk.pc \in {"returned", "settled"} /\ walk.n > 1

\* C21: on a malformed or short buffer a timing parser returns None, neither
\* raising nor returning a partial list of durations, and the reader then
\* keeps the decoded durations.
C21_MalformedGivesNone ==
    /\ (ParserReturned /\ MalformedBuffer(walk.fmt, walk.shape)) => walk.parsed = <<>>
    /\ (walk.pc = "settled" /\ MalformedBuffer(walk.fmt, walk.shape)) =>
          walk.final = _extract_animation_frames(Decoded(walk.fmt, walk.n, <<>>),
                                                 FALSE).durations

(***************************************************************************)
(* C28.  The chunk walks end and stay inside the buffer.                   *)
(***************************************************************************)
\* every position read lies in the buffer and every duration collected or
\* returned is at least 1
WalkInBounds ==
    /\ Inside(walk.data, walk.reads)
    /\ \A i \in 1..Len(walk.durations) : walk.durations[i] >= 1
    /\ \A i \in 1..Len(walk.parsed) : walk.parsed[i] >= 1
    /\ ~walk.raised

\* a pass of the loop that is followed by another moves the offset forward
OffsetAdvances ==
    (walk.pc = "loop" /\ walk'.pc = "loop" /\ walk' # walk) =>
        /\ walk'.offset > walk.offset
        /\ walk'.offset <= Len(walk.data) + 1

\* C28: on every buffer the WEBP walk and the APNG walk end: every pass of
\* the loop strictly increases the read offset, every read stays inside the
\* buffer, and every duration collected is at least 1.
C28_WalkEndsInBounds ==
    /\ []WalkInBounds
    /\ [][OffsetAdvances]_vars
    /\ <>(walk.pc = "settled")

\* a WEBP walk went through three timed chunks, one of odd length, to the
\* end of the buffer
C28_WalkedThreeChunks ==
    /\ walk.pc = "settled"
    /\ walk.fmt = "WEBP"
    /\ walk.parsed = <<1, 70000, 40>>
    /\ walk.offset = Len(walk.data)

(***************************************************************************)
(* C24.  Palette size of a quality.                                        *)
(***************************************************************************)
\* n is clamp(round(p / q), lo, hi) for some rounding of halves
ClampedNearest(n, p, q, lo, hi) ==
    /\ lo <= n /\ n <= hi
    /\ n > lo => 2 * (n * q - p) <= q
    /\ n < hi => 2 * (p - n * q) <= q

PaletteCalled == calc.fn = "palette" /\ calc.done

\* C24: for every quality q in 1..100 the number of palette colours compress
\* uses is clamp(round(q / 100 * 255), 16, 255): at least 16, at most 255, so
\* that index 255 stays free, and never less than for a smaller quality.
C24_PaletteSizeClamped ==
    PaletteCalled =>
        LET q == calc.args[1]
            colors == calc.out[2]
        IN  /\ calc.out[1] = colors
            /\ ClampedNearest(colors, q * 255, 100, 16, 255)
            /\ colors >= 16 /\ colors <= 255
            /\ \A p \in MIN_QUALITY..q : _quality_to_palette_size(p) <= colors
            /\ q = 50 => colors = 128
            /\ q = 6 => colors = 16
            /\ q = 100 => colors = 255

\* quality 6 gives round(15.3) = 15 colours, raised to 16
C24_SixGivesSixteen == PaletteCalled /\ calc.args[1] = 6 /\ calc.out = <<16, 16>>

(***************************************************************************)
(* C25.  Milliseconds of an fcTL delay.                                    *)
(***************************************************************************)
DelayCalled == calc.fn = "delay" /\ calc.done

\* the denominator and numerator the conversion works on
DelayDen(den) == IF den = 0 THEN 100 ELSE den
DelayNum(num) == IF num = 0 THEN 1 ELSE num

\* C25 (as stated): the delay num / den is converted to
\* round(num' / den' * 1000) ms, den' being 100 for den = 0 and num' being 1
\* for num = 0, and the result is at least 1 ms.
C25_DelayIsRounded ==
    DelayCalled =>
        /\ calc.out[1] = RoundDiv(DelayNum(calc.args[1]) * 1000, DelayDen(calc.args[2]))
        /\ calc.out[1] >= 1

\* C25 (amended): the delay is converted to max(1, r) ms, r being the
\* integer nearest to num' / den' * 1000, one of the two neighbours when
\* that lies exactly halfway; the result is at least 1 ms.
C25_DelayAtLeastOne ==
    DelayCalled =>
        LET num == DelayNum(calc.args[1])
            den == DelayDen(calc.args[2])
            ms == calc.out[1]
        IN  /\ ms >= 1
            /\ ms > 1 => 2 * (ms * den - num * 1000) <= den
            /\ 2 * (num * 1000 - ms * den) <= den
            /\ calc.args = <<0, 0>> => ms = 10
            /\ calc.args = <<5, 100>> => ms = 50

\* the delay 1 / 3000 s, a third of a millisecond, was converted to 1 ms
C25_ThirdOfMillisecond == DelayCalled /\ calc.args = <<1, 3000>> /\ calc.out = <<1>>

(***************************************************************************)
(* C29.  The size resize settles on.                                       *)
(***************************************************************************)
\* resize accepted the request and resolved a size
SizeResolved == calc.fn = "resize" /\ calc.done /\ calc.out # <<>>

\* C29: for every source with both sides at least 1 and every accepted
\* request the resolved width and height are at least 1, and with keepAspect
\* and both a width w > 0 and a height h > 0 given the resolved size fits the
\* box: width <= w and height <= h.
C29_ResolvedSizeFits ==
    /\ (calc.fn = "resize" /\ calc.done) =>
          (calc.out = <<>> <=> (calc.args[3] = 0 /\ calc.args[4] = 0))
    /\ SizeResolved =>
          /\ calc.out[1] >= 1 /\ calc.out[2] >= 1
          /\ (calc.args[5] /\ calc.args[3] > 0 /\ calc.args[4] > 0) =>
                /\ calc.out[1] <= calc.args[3]
                /\ calc.out[2] <= calc.args[4]

\* a 49x1 source fitted into 3x3 is 3 wide and, its height rounding to 0,
\* 1 high
C29_ThinSourceKeptOneHigh ==
    /\ SizeResolved
    /\ calc.args = <<49, 1, 3, 3, TRUE>>
    /\ calc.out = <<3, 1>>

(***************************************************************************)
(* C22.  The budget check comes first.                                     *)
(***************************************************************************)
\* the pending compress or resize request is answered with the budget's
\* rejection
BudgetRejects ==
    /\ pending /\ ~pending'
    /\ req.isdict
    /\ _normalize_action(req.action) \in {"compress", "resize"}
    /\ resp'.error_code = "GIF_MEMORY_LIMIT"

\* C22: in compress and resize the budget check runs before any frame is
\* quantized or resampled and before the output directory or file is created
\* or written: when it rejects the request no frame has been prepared for
\* the writer, the writer has not been called, and no directory and no file
\* has been created or changed.
C22_BudgetCheckedFirst ==
    [][BudgetRejects =>
          /\ wr' = NoWrite
          /\ ~resp'.success
          /\ UNCHANGED <<fs, dirs, exported>>]_vars

\* a compress of a GIF over the budget into a directory that does not exist
\* was rejected, and the directory still does not exist
C22_RejectedBeforeMkdir ==
    /\ Routed("compress")
    /\ resp.error_code = "GIF_MEMORY_LIMIT"
    /\ CostExceeds(Len(pre[req.input_path].frames), pre[req.input_path].w, pre[req.input_path].h)
    /\ Dirname(req.output_path) = "out"
    /\ "out" \notin dirs
    /\ fs[req.output_path].st = "absent"
    /\ wr = NoWrite

(***************************************************************************)
(* C23.  Index 255 is the transparency index and nothing else.             *)
(***************************************************************************)
\* the answered request quantized its frames and handed them to the GIF
\* writer
QuantizedWrite ==
    /\ Routed("compress") \/ Routed("resize") \/ Routed("convert_animation")
    /\ wr.called
    /\ wr.fmt = "GIF"

\* the alpha of frame i as it was handed to the quantizer
AlphaBefore(i) ==
    LET src == pre[req.input_path]
    IN  IF Routed("resize")
        THEN Resized(src.frames[i], <<src.w, src.h>>, <<wr.w, wr.h>>).alpha
        ELSE src.frames[i].alpha

\* C23: after the quantization of a frame a pixel has index 255 if and only
\* if its alpha before the quantization is <= 127, so that no pixel with
\* alpha > 127 has index 255; the frame's transparency index is 255 and its
\* palette has exactly 256 entries.
C23_IndexReservedForTransparency ==
    QuantizedWrite =>
        /\ Len(wr.frames) = Len(pre[req.input_path].frames)
        /\ \A i \in 1..Len(wr.frames) :
              /\ \A p \in 1..Len(AlphaBefore(i)) :
                    /\ wr.frames[i].index[p] = 255 <=> AlphaBefore(i)[p] <= 127
                    /\ wr.frames[i].index[p] \in 0..255
              /\ wr.frames[i].transparency = 255
              /\ wr.frames[i].entries = 256
        /\ wr.transparency = 255

\* a compress at the highest quality quantized a frame with a transparent
\* body and an opaque detail: the body has index 255, the detail the last
\* of the 255 colours
C23_OpaqueBelowTransparent ==
    /\ QuantizedWrite
    /\ Routed("compress")
    /\ \E i \in 1..Len(wr.frames) :
          /\ pre[req.input_path].frames[i].alpha = <<0, 255>>
          /\ wr.frames[i].pal = 255
          /\ wr.frames[i].index = <<255, 254>>

(***************************************************************************)
(* C27.  Disposal values of an APNG.                                       *)
(***************************************************************************)
\* the answered request handed its frames to the APNG writer
ApngWrite == Routed("convert_animation") /\ wr.called /\ wr.fmt = "PNG"

\* v brought into 0..2
Clamp02(v) == IF v > 2 THEN 2 ELSE IF v < 0 THEN 0 ELSE v

\* C27: every disposal value handed to the APNG encoder lies in {0, 1, 2}: a
\* source value above 2 is written as 2 and one below 0 as 0, frame by
\* frame, the list keeping its length and order.
C27_ApngDisposalsClamped ==
    ApngWrite =>
        LET src == pre[req.input_path]
        IN  /\ Len(wr.disposals) = Len(src.frames)
            /\ \A i \in 1..Len(src.frames) :
                  /\ wr.disposals[i].n \in {0, 1, 2}
                  /\ wr.disposals[i] = IntV(Clamp02(SourceDisposal(src, i)))
                  /\ resp.success => fs[req.output_path].frames[i].disp = wr.disposals[i]

\* a GIF whose frames declare the disposals 1 and 3 was converted to an
\* APNG with the disposals 1 and 2
C27_RestorePreviousClamped ==
    /\ ApngWrite
    /\ resp.success
    /\ pre[req.input_path].frames[1].disp = IntV(1)
    /\ pre[req.input_path].frames[2].disp = IntV(3)
    /\ wr.disposals = <<IntV(1), IntV(2)>>

(***************************************************************************)
(* C26.  The canvas of build_gif.                                          *)
(***************************************************************************)
\* m is the largest member of the set
Largest(m, set) == m \in set /\ \A x \in set : x <= m

\* the answered build_gif request handed its frames to the writer
BuildWrote == Routed("build_gif") /\ wr.called

\* C26: build_gif places every still on one canvas as wide as the widest
\* still and as high as the highest, so that all frames of the animation
\* have the same size; a still smaller than the canvas keeps its pixels at
\* the top-left and the rest is transparent; there are as many frames as
\* non-empty input paths.
C26_SharedCanvas ==
    BuildWrote =>
        LET paths == Truthy_paths(_coerce_input_paths(req))
            n == Len(paths)
        IN  /\ Len(wr.frames) = n
            /\ Largest(wr.w, {pre[paths[i]].w : i \in 1..n})
            /\ Largest(wr.h, {pre[paths[i]].h : i \in 1..n})
            /\ \A i \in 1..n :
                  /\ wr.frames[i].size = <<wr.w, wr.h>>
                  /\ wr.frames[i].content = <<pre[paths[i]].w, pre[paths[i]].h>>
                  /\ wr.frames[i].at = <<0, 0>>
                  /\ wr.frames[i].px = pre[paths[i]].frames[1].px
                  /\ wr.frames[i].alpha = pre[paths[i]].frames[1].alpha
                  /\ wr.frames[i].content # wr.frames[i].size => wr.frames[i].fill = 0
            /\ resp.success =>
                  /\ resp.frame_count = n
                  /\ fs[req.output_path].w = wr.w /\ fs[req.output_path].h = wr.h
                  /\ Len(fs[req.output_path].frames) = n

\* a still of 20x10 and one of 8x12 were put on a canvas of 20x12, each at
\* the top-left with transparent pixels around it
C26_TwoStillsPadded ==
    /\ BuildWrote
    /\ resp.success
    /\ Len(wr.frames) = 2
    /\ wr.w = 20 /\ wr.h = 12
    /\ wr.frames[1].content = <<20, 10>> /\ wr.frames[1].fill = 0
    /\ wr.frames[2].content = <<8, 12>> /\ wr.frames[2].fill = 0
    /\ wr.frames[1].size = wr.frames[2].size

(***************************************************************************)
(* C30.  The output format of convert_animation.                           *)
(***************************************************************************)
\* the pending request is answered by a call of convert_animation
ConvertCalled ==
    /\ pending /\ ~pending'
    /\ req.isdict
    /\ _normalize_action(req.action) = "convert_animation"
    /\ req.input_path # "" /\ req.output_path # ""
    /\ req.output_format # ""

\* C30: convert_animation treats the output format "png" as "apng" and
\* rejects a format outside gif, apng, png and webp before the input file
\* is opened and before a directory or file is created; the rejection
\* carries the code ANIMATED_CONVERT_BAD_INPUT, and no request is answered
\* with ANIMATED_CONVERT_BAD_FORMAT.
C30_FormatCheckedFirst ==
    [][/\ resp'.error_code # "ANIMATED_CONVERT_BAD_FORMAT"
       /\ ConvertCalled =>
             LET text == StripLower(req.output_format)
             IN  /\ text \notin {"gif", "apng", "png", "webp"} =>
                       RejectedWith({"ANIMATED_CONVERT_BAD_INPUT"})
                 /\ (text \in {"png", "apng"} /\ resp'.success) =>
                       /\ resp'.output_format = "apng"
                       /\ wr'.fmt = "PNG"
                       /\ fs'[req.output_path].fmt = "PNG"
                 /\ (text \in {"gif", "webp"} /\ resp'.success) =>
                       resp'.output_format = text]_vars

\* a conversion to bmp of a file that does not exist was rejected for its
\* format, not for the missing file
C30_FormatRejectedBeforeOpen ==
    /\ Routed("convert_animation")
    /\ req.output_format = "bmp"
    /\ pre[req.input_path].st = "absent"
    /\ resp.error_code = "ANIMATED_CONVERT_BAD_INPUT"
    /\ ~wr.called
    /\ dirs = {}
    /\ fs = pre

====
